---- MODULE Spec2Model ----
(***************************************************************************)
(* Model of the Taiga MCP server's tool dispatcher (app/server.py):        *)
(* identifier resolution (resolve_project_id, resolve_user_story_id),      *)
(* status / member lookup and the update handlers of call_tool, run        *)
(* against a backend that versions its entities.                           *)
(*                                                                         *)
(* A Python str is a sequence of one-character strings, so that isdigit,   *)
(* int, str, startswith and lower are computed character by character.     *)
(***************************************************************************)
EXTENDS Integers, Sequences, FiniteSets, TLC

VARIABLES
    stories,        \* backend: the user stories, in the order the backend lists them
    tasks,          \* backend: the tasks
    us_statuses,    \* backend: project id -> list of user-story statuses
    task_statuses,  \* backend: project id -> list of task statuses
    memberships,    \* backend: project id -> list of project members
    inv,            \* invocation slot -> the locals of the call_tool coroutine in it
    writes          \* every POST / PATCH the backend has received, in order

vars == <<stories, tasks, us_statuses, task_statuses, memberships, inv, writes>>

backend == <<stories, tasks, us_statuses, task_statuses, memberships>>

-----------------------------------------------------------------------------
(* Bounds of the model.                                                    *)

\* longest identifier string a caller passes (SpecResolve)
MaxIdLen == 3

\* longest status list / member list the backend returns (SpecLookup)
MaxListLen == 2

\* number of call_tool coroutines that may be in flight together (SpecConc)
NumInv == 2

\* longest tag list the backend returns (SpecTags)
MaxTags == 2

-----------------------------------------------------------------------------
(* Python strings.                                                         *)

\* str.isdigit() is true of the Unicode digits, superscripts included
DigitChars == {"0", "1", "7", "²"}

\* the characters int() accepts as digits
DecimalChars == {"0", "1", "7"}

DigitValue(c) == CASE c = "0" -> 0 [] c = "1" -> 1 [] c = "7" -> 7 [] OTHER -> 0

DigitChar(d) == CASE d = 0 -> "0" [] d = 1 -> "1" [] d = 2 -> "2" [] d = 3 -> "3"
                  [] d = 4 -> "4" [] d = 5 -> "5" [] d = 6 -> "6" [] d = 7 -> "7"
                  [] d = 8 -> "8" [] OTHER -> "9"

\* str.isdigit(): non-empty and every character is a digit
isdigit(s) == Len(s) > 0 /\ \A k \in 1..Len(s) : s[k] \in DigitChars

\* int(s) succeeds on a non-empty string of decimal digits (no sign, space or
\* underscore is in the alphabet of the model)
int_ok(s) == Len(s) > 0 /\ \A k \in 1..Len(s) : s[k] \in DecimalChars

RECURSIVE int_value(_)
int_value(s) ==
    IF Len(s) = 0 THEN 0
    ELSE 10 * int_value(SubSeq(s, 1, Len(s) - 1)) + DigitValue(s[Len(s)])

RECURSIVE str_int(_)
\* str(n) of a non-negative int: decimal digits, no leading zero
str_int(n) ==
    IF n < 10 THEN <<DigitChar(n)>>
    ELSE Append(str_int(n \div 10), DigitChar(n % 10))

startswith_hash(s) == Len(s) > 0 /\ s[1] = "#"

\* s[1:]
tail_str(s) == SubSeq(s, 2, Len(s))

lower_char(c) == CASE c = "A" -> "a" [] c = "B" -> "b" [] OTHER -> c

\* str.lower()
lower(s) == [k \in 1..Len(s) |-> lower_char(s[k])]

\* Python truthiness of an optional string: None and "" are falsy
None == <<"None">>

truthy(s) == s # None /\ Len(s) > 0

\* a or b
py_or(a, b) == IF truthy(a) THEN a ELSE b

\* the strings of length at most n over alphabet A
Strings(A, n) == UNION {[1..k -> A] : k \in 0..n}

-----------------------------------------------------------------------------
(* Tags: the field validator normalize_tags of the UserStory and Task      *)
(* models. An element of a tag list is a tagged value: a str, an int, None *)
(* or a list of such values.                                               *)

TagStr(s) == [shape |-> "str", s |-> s, n |-> 0, items |-> <<>>]

TagInt(n) == [shape |-> "int", s |-> <<>>, n |-> n, items |-> <<>>]

TagNone == [shape |-> "none", s |-> <<>>, n |-> 0, items |-> <<>>]

TagList(items) == [shape |-> "list", s |-> <<>>, n |-> 0, items |-> items]

\* the tags value None (as opposed to a list)
NoneTags == <<[shape |-> "absent", s |-> <<>>, n |-> 0, items |-> <<>>]>>

\* a tags value that is a number, not a list
RawInt(n) == <<[shape |-> "raw_int", s |-> <<>>, n |-> n, items |-> <<>>]>>

\* a tags value that is a string, not a list
RawStr(s) == <<[shape |-> "raw_str", s |-> s, n |-> 0, items |-> <<>>]>>

\* the tags value is a number / a string
IsRaw(v, shape) == Len(v) = 1 /\ v[1].shape = shape

RECURSIVE py_str(_)
RECURSIVE py_repr(_)
RECURSIVE join_repr(_)

\* ", ".join(repr(x) for x in items)
join_repr(items) ==
    IF Len(items) = 0 THEN <<>>
    ELSE IF Len(items) = 1 THEN py_repr(items[1])
    ELSE py_repr(items[1]) \o <<",", " ">> \o join_repr(Tail(items))

\* repr(value): a str is quoted, everything else prints as str() does
py_repr(value) ==
    IF value.shape = "str" THEN <<"'">> \o value.s \o <<"'">> ELSE py_str(value)

\* str(value)
py_str(value) ==
    CASE value.shape = "str" -> value.s
      [] value.shape = "int" -> str_int(value.n)
      [] value.shape = "list" -> <<"[">> \o join_repr(value.items) \o <<"]">>
      [] OTHER -> <<"N", "o", "n", "e">>

\* mutant: the first element of a nested tag is taken as it is
tag_head_raw(tag) == tag.items[1]

\* str(tag[0])
tag_head(tag) == TagStr(py_str(tag.items[1]))

\* the body of the loop of normalize_tags: what one element appends to result
normalize_tag(tag) ==
    IF tag.shape = "list" /\ Len(tag.items) > 0 THEN <<tag_head(tag)>>
    ELSE IF tag.shape = "str" THEN <<tag>>
    ELSE <<>>

RECURSIVE normalize_loop(_)
\* `for tag in v`, appending in order
normalize_loop(v) ==
    IF Len(v) = 0 THEN <<>> ELSE normalize_tag(v[1]) \o normalize_loop(Tail(v))

\* `not v`: None, an empty list, the number 0 and the empty string are falsy
tags_falsy(v) ==
    \/ v = NoneTags
    \/ Len(v) = 0
    \/ IsRaw(v, "raw_int") /\ v[1].n = 0
    \/ IsRaw(v, "raw_str") /\ Len(v[1].s) = 0

\* `for tag in v` raises TypeError when v is a number other than 0
not_iterable(v) == ~tags_falsy(v) /\ IsRaw(v, "raw_int")

\* what `for tag in v` iterates over: the elements of a list, the characters of a str
iterated(v) ==
    IF IsRaw(v, "raw_str") THEN [k \in 1..Len(v[1].s) |-> TagStr(<<v[1].s[k]>>)] ELSE v

\* normalize_tags: `if not v: return []`, then the loop
normalize_tags(v) ==
    IF tags_falsy(v) THEN <<>> ELSE normalize_loop(iterated(v))

\* UserStory(**data) / Task(**data) raises: the validator could not iterate the tags
parse_raises(entity) ==
    "tags" \in DOMAIN entity.data /\ not_iterable(entity.data["tags"])

\* UserStory(**data) / Task(**data): the model built from a backend response,
\* its tags passed through the validator
Parsed(entity) ==
    IF "tags" \in DOMAIN entity.data
    THEN [entity EXCEPT !.data["tags"] = normalize_tags(@)]
    ELSE entity

-----------------------------------------------------------------------------
(* The backend: projects, entities, statuses and members.                  *)

Projects == <<[id |-> 1, slug |-> <<"d">>, name |-> "Demo"],
              [id |-> 7, slug |-> <<"d", "1">>, name |-> "Other"]>>

ProjectIds == {Projects[k].id : k \in 1..Len(Projects)}

NoEntity == [id |-> 0, ref |-> 0, project |-> 0, version |-> 0, data |-> <<>>]

\* refs are unique within a project only: stories 10 and 17 both have ref 7
InitStories ==
    <<[id |-> 10, ref |-> 7,  project |-> 1, version |-> 1,
       data |-> [subject |-> <<"o">>, status |-> 1,
                 points |-> [kind |-> "dict", roles |-> <<4, 5>>, values |-> <<3, 0>>,
                             raw |-> <<>>]]],
      [id |-> 11, ref |-> 10, project |-> 1, version |-> 1,
       data |-> [subject |-> <<"o">>, status |-> 1,
                 points |-> [kind |-> "scalar", roles |-> <<>>, values |-> <<5>>,
                             raw |-> <<>>]]],
      [id |-> 17, ref |-> 7,  project |-> 7, version |-> 1,
       data |-> [subject |-> <<"o">>, status |-> 3,
                 points |-> [kind |-> "null", roles |-> <<>>, values |-> <<>>,
                             raw |-> <<>>]]]>>

InitTasks ==
    <<[id |-> 70, ref |-> 1, project |-> 1, version |-> 1,
       data |-> [subject |-> <<"o">>, status |-> 11]],
      [id |-> 71, ref |-> 1, project |-> 7, version |-> 1,
       data |-> [subject |-> <<"o">>, status |-> 13]]>>

InitUsStatuses ==
    [p \in ProjectIds |->
        IF p = 1 THEN <<[id |-> 1, name |-> <<"A">>], [id |-> 2, name |-> <<"B", "a">>]>>
                 ELSE <<[id |-> 3, name |-> <<"B">>]>>]

InitTaskStatuses ==
    [p \in ProjectIds |->
        IF p = 1 THEN <<[id |-> 11, name |-> <<"A">>], [id |-> 12, name |-> <<"b">>]>>
                 ELSE <<[id |-> 13, name |-> <<"b", "a">>]>>]

NoExtraInfo == [present |-> FALSE, username |-> None, full_name |-> None]

InitMemberships ==
    [p \in ProjectIds |->
        IF p = 1
        THEN <<[user |-> 21, username |-> <<"a">>, full_name |-> <<"A", "b">>,
                user_extra_info |-> NoExtraInfo],
               [user |-> 22, username |-> None, full_name |-> None,
                user_extra_info |-> [present |-> TRUE, username |-> <<"b">>,
                                     full_name |-> <<"B", "b">>]]>>
        ELSE <<[user |-> 23, username |-> <<"b">>, full_name |-> <<"a">>,
                user_extra_info |-> NoExtraInfo]>>]

\* index of the first element of seq whose id is id, 0 when there is none
IndexOfId(seq, id) ==
    IF \E k \in 1..Len(seq) : seq[k].id = id
    THEN CHOOSE k \in 1..Len(seq) :
            seq[k].id = id /\ \A j \in 1..(k - 1) : seq[j].id # id
    ELSE 0

\* ProjectService.get_project: GET /projects/{id}
get_project(id) == IndexOfId(Projects, id)

\* ProjectService.get_project_by_slug: GET /projects/by_slug?slug=
get_project_by_slug(slug) ==
    IF \E k \in 1..Len(Projects) : Projects[k].slug = slug
    THEN CHOOSE k \in 1..Len(Projects) : Projects[k].slug = slug
    ELSE 0

\* UserStoryService.list_user_stories: GET /userstories?project=
list_user_stories(project_id) ==
    SelectSeq(stories, LAMBDA s : s.project = project_id)

\* mutant: the by-ref query is not scoped to the project
get_task_by_ref_any_project(ref, project_id) ==
    IF \E k \in 1..Len(tasks) : tasks[k].ref = ref
    THEN CHOOSE k \in 1..Len(tasks) :
            tasks[k].ref = ref /\ \A j \in 1..(k - 1) : tasks[j].ref # ref
    ELSE 0

\* TaskService.get_task_by_ref: GET /tasks/by_ref?ref=&project=
get_task_by_ref(ref, project_id) ==
    IF \E k \in 1..Len(tasks) : tasks[k].ref = ref /\ tasks[k].project = project_id
    THEN CHOOSE k \in 1..Len(tasks) : tasks[k].ref = ref /\ tasks[k].project = project_id
    ELSE 0

\* TaskService.get_task: GET /tasks/{id}
get_task(task_id) == IndexOfId(tasks, task_id)

\* UserStoryService.get_user_story: GET /userstories/{id}
get_user_story(user_story_id) == IndexOfId(stories, user_story_id)

\* the backend applies the fields of a PATCH body and increments the version
ApplyPatch(entity, payload) ==
    [entity EXCEPT
        !.version = @ + 1,
        !.data = [k \in (DOMAIN payload \ {"version", "comment"}) \cup DOMAIN entity.data |->
                    IF k \in DOMAIN payload THEN payload[k] ELSE entity.data[k]]]

\* optimistic concurrency: the backend takes a PATCH only at the current version
BackendAccepts(entity, payload) == payload["version"] = entity.version

\* the ids the backend gives to created entities
NextId(seq) ==
    1 + (CHOOSE m \in {seq[k].id : k \in 1..Len(seq)} :
            \A k \in 1..Len(seq) : seq[k].id <= m)

NextRef(project_id) ==
    LET used == {stories[k].ref : k \in {j \in 1..Len(stories) : stories[j].project = project_id}}
                \cup {tasks[k].ref : k \in {j \in 1..Len(tasks) : tasks[j].project = project_id}}
    IN  1 + (CHOOSE m \in used \cup {0} : \A u \in used : u <= m)

\* the backend's default status of a created entity: the first of the project
DefaultStatus(statuses) == IF Len(statuses) > 0 THEN statuses[1].id ELSE 0

CreateEntity(seq, payload, statuses) ==
    [id |-> NextId(seq), ref |-> NextRef(payload["project"]),
     project |-> payload["project"], version |-> 1,
     data |-> [k \in (DOMAIN payload \ {"project"}) \cup {"status"} |->
                IF k \in DOMAIN payload THEN payload[k] ELSE DefaultStatus(statuses)]]

-----------------------------------------------------------------------------
(* Status and member lookup: the for loops of call_tool.                   *)

\* mutant: the names are compared as they are written
status_matches_exactly(status, name) == status.name = name

\* status.name.lower() == arguments["status"].lower()
status_matches(status, name) == lower(status.name) = lower(name)

\* the loop over statuses with its break: index of the first match, 0 if none
find_status(statuses, name) ==
    IF \E k \in 1..Len(statuses) : status_matches(statuses[k], name)
    THEN CHOOSE k \in 1..Len(statuses) :
            /\ status_matches(statuses[k], name)
            /\ \A j \in 1..(k - 1) : ~status_matches(statuses[j], name)
    ELSE 0

\* ", ".join([s.name for s in statuses]), kept as the list of names
status_names(statuses) == [k \in 1..Len(statuses) |-> statuses[k].name]

\* member.user_extra_info.get(key) if member.user_extra_info else None
extra_info_get(member, key) ==
    IF member.user_extra_info.present THEN member.user_extra_info[key] ELSE None

\* member.username or (user_extra_info username)
effective_username(member) == py_or(member.username, extra_info_get(member, "username"))

\* member.full_name or (user_extra_info full_name)
effective_full_name(member) == py_or(member.full_name, extra_info_get(member, "full_name"))

\* the two if statements in the body of the member loop
member_matches(member, name) ==
    \/ truthy(effective_username(member)) /\ lower(effective_username(member)) = lower(name)
    \/ truthy(effective_full_name(member)) /\ lower(effective_full_name(member)) = lower(name)

\* mutant: a username match anywhere in the list is preferred to a full-name match
find_member_two_pass(members, name) ==
    LET by_username(m) == truthy(effective_username(m))
                          /\ lower(effective_username(m)) = lower(name)
    IN  IF \E k \in 1..Len(members) : by_username(members[k])
        THEN CHOOSE k \in 1..Len(members) :
                /\ by_username(members[k])
                /\ \A j \in 1..(k - 1) : ~by_username(members[j])
        ELSE IF \E k \in 1..Len(members) : member_matches(members[k], name)
             THEN CHOOSE k \in 1..Len(members) :
                     /\ member_matches(members[k], name)
                     /\ \A j \in 1..(k - 1) : ~member_matches(members[j], name)
             ELSE 0

\* the loop over members with its breaks: index of the first match, 0 if none
find_member(members, name) ==
    IF \E k \in 1..Len(members) : member_matches(members[k], name)
    THEN CHOOSE k \in 1..Len(members) :
            /\ member_matches(members[k], name)
            /\ \A j \in 1..(k - 1) : ~member_matches(members[j], name)
    ELSE 0

\* m.username or (user_extra_info username, else "unknown"), for each member
member_names(members) ==
    [k \in 1..Len(members) |->
        py_or(members[k].username,
              IF members[k].user_extra_info.present
              THEN members[k].user_extra_info.username ELSE <<"unknown">>)]

-----------------------------------------------------------------------------
(* The locals of one call_tool coroutine.                                  *)

Inv == 1..NumInv

NoResult == [ok |-> FALSE, error |-> "pending", names |-> <<>>, text |-> ""]

NoPoints == [kind |-> "null", roles |-> <<>>, values |-> <<>>, raw |-> <<>>]

IdleInv ==
    [pc |-> "idle", name |-> "", arguments |-> <<>>, ret |-> "",
     project_id |-> 0, scan_project_id |-> 0, user_story_id |-> 0,
     current |-> NoEntity, update_data |-> <<>>, status_id |-> 0,
     calls |-> <<>>, result |-> NoResult, started |-> 0]

Call(op, id, project, slug) == [op |-> op, id |-> id, project |-> project, slug |-> slug]

\* arguments.get(key)
Arg(r, key) == IF key \in DOMAIN r.arguments THEN r.arguments[key] ELSE None

\* "key" in arguments and arguments["key"]
Supplied(r, key) == truthy(Arg(r, key))

\* the Python class of the exception behind each failure of the model
ExceptionClass(error) ==
    CASE error \in {"ProjectRequired", "InvalidLiteral", "RefNotFound", "UnknownTool"}
            -> "ValueError"
      [] error = "MissingArgument" -> "KeyError"
      [] error = "NotIterable" -> "TypeError"
      [] error \in {"NotFound", "Conflict", "Transport"} -> "TaigaMCPError"
      [] error = "Network" -> "Exception"
      [] OTHER -> "Exception"

\* the classes that derive from Exception
IsException(class) ==
    class \in {"ValueError", "KeyError", "TypeError", "TaigaMCPError", "Exception"}

\* mutant: only the domain errors are caught
except_clauses_domain_only(class) ==
    IF class = "TaigaMCPError" THEN "Error: " ELSE "escapes"

\* `except TaigaMCPError` and `except Exception` of call_tool: the prefix of the
\* text that is returned, or "escapes" when neither clause takes the exception
except_clauses(class) ==
    IF class = "TaigaMCPError" THEN "Error: "
    ELSE IF IsException(class) THEN "Unexpected error: "
    ELSE "escapes"

\* an exception is raised inside the try block of call_tool
Fail(r, error) ==
    LET text == except_clauses(ExceptionClass(error)) IN
    IF text = "escapes"
    THEN [r EXCEPT !.pc = "escaped",
                   !.result = [ok |-> FALSE, error |-> error, names |-> <<>>, text |-> ""]]
    ELSE [r EXCEPT !.pc = "done",
                   !.result = [ok |-> FALSE, error |-> error, names |-> <<>>, text |-> text]]

\* an update tool returns the text of an unresolved name itself
FailWithNames(r, error, names) ==
    [r EXCEPT !.pc = "done",
              !.result = [ok |-> FALSE, error |-> error, names |-> names, text |-> "Error: "]]

\* the tool returns the text of its success
Succeed(r) ==
    [r EXCEPT !.pc = "done",
              !.result = [ok |-> TRUE, error |-> "", names |-> <<>>, text |-> "successfully"]]

Logged(r, call) == [r EXCEPT !.calls = Append(@, call)]

IsUserStoryTool(name) == name \in {"createUserStory", "updateUserStory", "getUserStory"}

IsUpdateTool(name) == name \in {"updateUserStory", "updateTask"}

IsCreateTool(name) == name \in {"createUserStory", "createTask"}

-----------------------------------------------------------------------------
(* Building the update and the request bodies.                             *)

\* float(points_value) succeeds (the alphabet has no sign, point or exponent)
float_ok(s) == int_ok(s)

float_value(s) == int_value(s)

EntityPoints(current) ==
    IF "points" \in DOMAIN current.data THEN current.data["points"] ELSE NoPoints

\* mutant: the role that is updated is the last one of the mapping
last_role(points) == points.roles[Len(points.roles)]

\* role_keys = list(current_story.points.keys()); first_role = role_keys[0]
first_role(points) == points.roles[1]

\* mutant: a value that is no number is passed on as it is, as for scalar points
role_points_passed_raw(points_value) ==
    [emit |-> TRUE,
     value |-> [kind |-> "raw", roles |-> <<>>, values |-> <<>>, raw |-> points_value]]

\* `except (ValueError, TypeError): logger.warning(...)` of the role-based branch:
\* update_data gets no points
role_points_not_coerced(points_value) == [emit |-> FALSE, value |-> NoPoints]

\* the body of `if "points" in arguments and arguments["points"]`:
\* the value put under update_data["points"], or no value at all
PointsUpdate(current, points_value) ==
    LET points == EntityPoints(current) IN
    IF points.kind = "dict" /\ Len(points.roles) > 0
    THEN IF float_ok(points_value)
         THEN [emit |-> TRUE,
               value |-> [kind |-> "dict", roles |-> <<first_role(points)>>,
                          values |-> <<float_value(points_value)>>, raw |-> <<>>]]
         ELSE role_points_not_coerced(points_value)
    ELSE IF ~truthy(points_value)
         THEN [emit |-> TRUE, value |-> NoPoints]
         ELSE IF float_ok(points_value)
              THEN [emit |-> TRUE,
                    value |-> [kind |-> "scalar", roles |-> <<>>,
                               values |-> <<float_value(points_value)>>, raw |-> <<>>]]
              ELSE [emit |-> TRUE,
                    value |-> [kind |-> "raw", roles |-> <<>>, values |-> <<>>,
                               raw |-> points_value]]

\* mutant: the update claims the version it expects the entity to reach
VersionStamp_next(current) == current.version + 1

\* update_data = {"version": current_story.version}
VersionStamp(current) == current.version

\* update_data of updateUserStory before the status and assignee lookups
BuildUserStoryUpdate(current, arguments) ==
    LET has_points == "points" \in DOMAIN arguments /\ truthy(arguments["points"])
        points == IF has_points THEN PointsUpdate(current, arguments["points"])
                  ELSE [emit |-> FALSE, value |-> NoPoints]
        keys == {"version"}
                \cup ({"subject", "description", "tags"} \cap DOMAIN arguments)
                \cup (IF points.emit THEN {"points"} ELSE {})
                \cup (IF "dueDate" \in DOMAIN arguments THEN {"due_date"} ELSE {})
    IN  [k \in keys |->
            CASE k = "version" -> VersionStamp(current)
              [] k = "points" -> points.value
              [] k = "due_date" -> arguments["dueDate"]
              [] OTHER -> arguments[k]]

\* mutant: the subject of the current task is sent back when none is supplied
BuildTaskUpdate_merged(current, arguments) ==
    LET keys == {"version", "subject"}
                \cup ({"description", "tags"} \cap DOMAIN arguments)
                \cup (IF "comment" \in DOMAIN arguments /\ truthy(arguments["comment"])
                      THEN {"comment"} ELSE {})
    IN  [k \in keys |->
            CASE k = "version" -> VersionStamp(current)
              [] k = "subject" /\ "subject" \notin DOMAIN arguments -> current.data["subject"]
              [] OTHER -> arguments[k]]

\* update_data of updateTask before the status and assignee lookups
BuildTaskUpdate(current, arguments) ==
    LET keys == {"version"}
                \cup ({"subject", "description", "tags"} \cap DOMAIN arguments)
                \cup (IF "comment" \in DOMAIN arguments /\ truthy(arguments["comment"])
                      THEN {"comment"} ELSE {})
    IN  [k \in keys |->
            CASE k = "version" -> VersionStamp(current)
              [] OTHER -> arguments[k]]

\* update_data[key] = value
WithKey(f, key, value) ==
    [k \in DOMAIN f \cup {key} |-> IF k = key THEN value ELSE f[k]]

\* a field of a request model holds None
IsNoneField(f, k) ==
    CASE k \in {"version", "status", "assigned_to", "project", "user_story"} -> f[k] = 0
      [] k = "points" -> f[k].kind = "null"
      [] k = "tags" -> f[k] = NoneTags
      [] OTHER -> f[k] = None

\* request.model_dump(exclude_none=True)
model_dump(f) == [k \in {x \in DOMAIN f : ~IsNoneField(f, x)} |-> f[k]]

\* CreateUserStoryRequest(...) / CreateTaskRequest(...)
CreateRequest(r) ==
    LET base == [project |-> r.project_id, subject |-> r.arguments["subject"],
                 description |-> Arg(r, "description"), status |-> r.status_id,
                 tags |-> IF "tags" \in DOMAIN r.arguments THEN r.arguments["tags"]
                          ELSE NoneTags]
    IN  IF r.name = "createTask" THEN WithKey(base, "user_story", r.user_story_id) ELSE base

-----------------------------------------------------------------------------
(* The control flow of call_tool between its awaits.                       *)

\* CreateUserStoryRequest(... subject=arguments["subject"] ...) is built just
\* before the POST is awaited
BuildCreate(r) ==
    IF "subject" \in DOMAIN r.arguments THEN [r EXCEPT !.pc = "post"]
    ELSE Fail(r, "MissingArgument")

\* where a create tool goes once its identifiers are resolved
CreateLookup(r) ==
    IF Supplied(r, "status") THEN [r EXCEPT !.pc = "statuses"] ELSE BuildCreate(r)

\* where an update tool goes after update_data is built
UpdateLookup(r) ==
    [r EXCEPT !.pc = IF Supplied(r, "status") THEN "statuses"
                     ELSE IF Supplied(r, "assignedTo") THEN "members" ELSE "patch"]

\* the caller of resolve_user_story_id continues with the id
AfterUserStoryId(r) ==
    IF r.name = "createTask" THEN CreateLookup(r) ELSE [r EXCEPT !.pc = "get_user_story"]

\* mutant: the reference is compared as a number
ref_matches_as_int(story, ref_number) ==
    int_ok(ref_number) /\ story.ref = int_value(ref_number)

\* str(story.ref) == ref_number
ref_matches(story, ref_number) == str_int(story.ref) = ref_number

\* the loop of resolve_user_story_id over the listed stories
find_story_by_ref(listed, ref_number) ==
    IF \E k \in 1..Len(listed) : ref_matches(listed[k], ref_number)
    THEN CHOOSE k \in 1..Len(listed) :
            /\ ref_matches(listed[k], ref_number)
            /\ \A j \in 1..(k - 1) : ~ref_matches(listed[j], ref_number)
    ELSE 0

\* mutant: only an absent project identifier is refused, an empty one is not
project_identifier_is_none(project_identifier) == project_identifier = None

\* `if not project_identifier` of resolve_user_story_id
project_identifier_missing(project_identifier) == ~truthy(project_identifier)

\* resolve_user_story_id up to its first await
resolve_user_story_id(r, user_story_identifier, project_identifier) ==
    IF startswith_hash(user_story_identifier)
    THEN IF project_identifier_missing(project_identifier)
         THEN Fail(r, "ProjectRequired")
         ELSE [r EXCEPT !.pc = "resolve_project", !.ret = "resolver"]
    ELSE IF int_ok(user_story_identifier)
         THEN AfterUserStoryId([r EXCEPT !.user_story_id = int_value(user_story_identifier)])
         ELSE Fail(r, "InvalidLiteral")

\* the branch of updateTask on its taskId, after the project is resolved
EnterTask(r) ==
    LET task_identifier == r.arguments["taskId"] IN
    IF "taskId" \notin DOMAIN r.arguments THEN Fail(r, "MissingArgument")
    ELSE IF startswith_hash(task_identifier)
    THEN IF int_ok(tail_str(task_identifier))
         THEN [r EXCEPT !.pc = "get_task_by_ref"]
         ELSE Fail(r, "InvalidLiteral")
    ELSE IF int_ok(task_identifier)
         THEN [r EXCEPT !.pc = "get_task"]
         ELSE Fail(r, "InvalidLiteral")

\* the code that follows `await resolve_project_id(...)`
AfterProject(r, project_id) ==
    IF r.ret = "resolver"
    THEN [r EXCEPT !.scan_project_id = project_id, !.pc = "list_user_stories"]
    ELSE LET r1 == [r EXCEPT !.project_id = project_id] IN
         CASE r.name = "getProject" -> [r1 EXCEPT !.pc = "get_project"]
           [] r.name = "createUserStory" -> CreateLookup(r1)
           [] r.name = "createTask" ->
                IF "userStoryIdentifier" \notin DOMAIN r.arguments
                THEN Fail(r1, "MissingArgument")
                ELSE resolve_user_story_id(r1, r.arguments["userStoryIdentifier"],
                                           r.arguments["projectIdentifier"])
           [] OTHER -> EnterTask(r1)

\* `if identifier.isdigit()` of resolve_project_id
fetch_by_id(identifier) == isdigit(identifier)

-----------------------------------------------------------------------------
(* The steps of a call_tool coroutine: one action per awaited backend call. *)

\* call_tool is entered with a tool name and its arguments; it runs to its first await
Begin(i, name, arguments) ==
    /\ inv[i].pc = "idle"
    /\ LET r == [IdleInv EXCEPT !.name = name, !.arguments = arguments,
                                !.started = Len(writes)]
       IN  inv' = [inv EXCEPT ![i] =
                CASE name \in {"updateUserStory", "getUserStory"} ->
                        IF "userStoryIdentifier" \notin DOMAIN arguments
                        THEN Fail(r, "MissingArgument")
                        ELSE resolve_user_story_id(r, arguments["userStoryIdentifier"],
                                                   Arg(r, "projectIdentifier"))
                  [] name \in {"getProject", "createUserStory", "createTask", "updateTask"} ->
                        IF "projectIdentifier" \notin DOMAIN arguments
                        THEN Fail(r, "MissingArgument")
                        ELSE [r EXCEPT !.pc = "resolve_project", !.ret = "tool"]
                  [] OTHER -> Fail(r, "UnknownTool")]
    /\ UNCHANGED <<backend, writes>>

\* resolve_project_id: one fetch, by id or by slug
ResolveProject(i) ==
    LET r == inv[i]
        identifier == r.arguments["projectIdentifier"]
    IN  /\ r.pc = "resolve_project"
        /\ inv' = [inv EXCEPT ![i] =
             IF fetch_by_id(identifier)
             THEN IF ~int_ok(identifier)
                  THEN Fail(r, "InvalidLiteral")
                  ELSE LET k == get_project(int_value(identifier))
                           r1 == Logged(r, Call("get_project", int_value(identifier), 0, <<>>))
                       IN  IF k = 0 THEN Fail(r1, "NotFound")
                           ELSE AfterProject(r1, Projects[k].id)
             ELSE LET k == get_project_by_slug(identifier)
                      r1 == Logged(r, Call("get_project_by_slug", 0, 0, identifier))
                  IN  IF k = 0 THEN Fail(r1, "NotFound")
                      ELSE AfterProject(r1, Projects[k].id)]
        /\ UNCHANGED <<backend, writes>>

\* getProject fetches the project again by the resolved id
GetProject(i) ==
    LET r == inv[i]
        r1 == Logged(r, Call("get_project", r.project_id, 0, <<>>))
    IN  /\ r.pc = "get_project"
        /\ inv' = [inv EXCEPT ![i] =
             IF get_project(r.project_id) = 0 THEN Fail(r1, "NotFound") ELSE Succeed(r1)]
        /\ UNCHANGED <<backend, writes>>

\* resolve_user_story_id lists the stories of the project and scans them
ListUserStories(i) ==
    LET r == inv[i]
        ref_number == tail_str(r.arguments["userStoryIdentifier"])
        listed == list_user_stories(r.scan_project_id)
        k == find_story_by_ref(listed, ref_number)
        r1 == Logged(r, Call("list_user_stories", 0, r.scan_project_id, <<>>))
    IN  /\ r.pc = "list_user_stories"
        /\ inv' = [inv EXCEPT ![i] =
             IF \E j \in 1..Len(listed) : parse_raises(listed[j])
             THEN Fail(r1, "NotIterable")
             ELSE IF k = 0 THEN Fail(r1, "RefNotFound")
             ELSE AfterUserStoryId([r1 EXCEPT !.user_story_id = listed[k].id])]
        /\ UNCHANGED <<backend, writes>>

\* mutant: an entity some invocation has read before is served from that read
read_entity_cached(entities, k) ==
    IF \E j \in Inv : inv[j].current.id = entities[k].id
    THEN inv[CHOOSE j \in Inv : inv[j].current.id = entities[k].id].current
    ELSE Parsed(entities[k])

\* current_story = await ...get_user_story(...): the entity as the backend holds it now
read_entity(entities, k) == Parsed(entities[k])

\* get_user_story of getUserStory and updateUserStory; the update builds update_data
GetUserStory(i) ==
    LET r == inv[i]
        k == get_user_story(r.user_story_id)
        r1 == Logged(r, Call("get_user_story", r.user_story_id, 0, <<>>))
    IN  /\ r.pc = "get_user_story"
        /\ inv' = [inv EXCEPT ![i] =
             IF k = 0 THEN Fail(r1, "NotFound")
             ELSE IF parse_raises(stories[k]) THEN Fail(r1, "NotIterable")
             ELSE IF r.name = "getUserStory"
                  THEN Succeed([r1 EXCEPT !.current = read_entity(stories, k)])
                  ELSE UpdateLookup([r1 EXCEPT
                          !.current = read_entity(stories, k),
                          !.project_id = read_entity(stories, k).project,
                          !.update_data =
                              BuildUserStoryUpdate(read_entity(stories, k), r.arguments)])]
        /\ UNCHANGED <<backend, writes>>

\* the task fetched by updateTask becomes current_task and update_data is built
TaskFetched(r1, k) ==
    IF k = 0 THEN Fail(r1, "NotFound")
    ELSE IF parse_raises(tasks[k]) THEN Fail(r1, "NotIterable")
    ELSE UpdateLookup([r1 EXCEPT
            !.current = read_entity(tasks, k),
            !.update_data = BuildTaskUpdate(read_entity(tasks, k), r1.arguments)])

\* updateTask with a numeric taskId: get_task
GetTask(i) ==
    LET r == inv[i]
        task_id == int_value(r.arguments["taskId"])
    IN  /\ r.pc = "get_task"
        /\ inv' = [inv EXCEPT ![i] =
             TaskFetched(Logged(r, Call("get_task", task_id, 0, <<>>)), get_task(task_id))]
        /\ UNCHANGED <<backend, writes>>

\* updateTask with a #ref taskId: get_task_by_ref in the resolved project
GetTaskByRef(i) ==
    LET r == inv[i]
        ref == int_value(tail_str(r.arguments["taskId"]))
    IN  /\ r.pc = "get_task_by_ref"
        /\ inv' = [inv EXCEPT ![i] =
             TaskFetched(Logged(r, Call("get_task_by_ref", ref, r.project_id, <<>>)),
                         get_task_by_ref(ref, r.project_id))]
        /\ UNCHANGED <<backend, writes>>

\* mutant: every tool resolves its status in the user-story statuses
fetched_statuses_of_stories(r) == us_statuses[r.project_id]

\* the status list a tool fetches: user-story statuses or task statuses of project_id
fetched_statuses(r) ==
    IF IsUserStoryTool(r.name) THEN us_statuses[r.project_id] ELSE task_statuses[r.project_id]

\* mutant: the update goes on without a status, as the create tools do
status_not_found_ignored(r, statuses) ==
    [r EXCEPT !.pc = IF Supplied(r, "assignedTo") THEN "members" ELSE "patch"]

\* what an update tool does when its loop over the statuses found no match
status_not_found(r, statuses) ==
    FailWithNames(r, "StatusNotFound", status_names(statuses))

\* what a create tool does when its loop over the statuses found no match
create_status_not_found(r, statuses) == BuildCreate(r)

\* `if "status" in arguments and arguments["status"]`: fetch the statuses and resolve
FetchStatuses(i) ==
    LET r == inv[i]
        statuses == fetched_statuses(r)
        k == find_status(statuses, r.arguments["status"])
        r1 == Logged(r, Call(IF IsUserStoryTool(r.name) THEN "get_user_story_statuses"
                             ELSE "get_task_statuses", 0, r.project_id, <<>>))
    IN  /\ r.pc = "statuses"
        /\ inv' = [inv EXCEPT ![i] =
             IF IsCreateTool(r.name)
             THEN IF k = 0
                  THEN create_status_not_found(r1, statuses)
                  ELSE BuildCreate([r1 EXCEPT !.status_id = statuses[k].id])
             ELSE IF k = 0
                  THEN status_not_found(r1, statuses)
                  ELSE [r1 EXCEPT
                          !.update_data = WithKey(@, "status", statuses[k].id),
                          !.pc = IF Supplied(r, "assignedTo") THEN "members" ELSE "patch"]]
        /\ UNCHANGED <<backend, writes>>

\* what an update tool does when its loop over the members found no match
member_not_found(r, members) ==
    FailWithNames(r, "MemberNotFound", member_names(members))

\* `if "assignedTo" in arguments and arguments["assignedTo"]`: list the members and resolve
FetchMembers(i) ==
    LET r == inv[i]
        members == memberships[r.project_id]
        k == find_member(members, r.arguments["assignedTo"])
        r1 == Logged(r, Call("list_project_members", 0, r.project_id, <<>>))
    IN  /\ r.pc = "members"
        /\ inv' = [inv EXCEPT ![i] =
             IF k = 0
             THEN member_not_found(r1, members)
             ELSE [r1 EXCEPT
                     !.update_data = WithKey(@, "assigned_to", members[k].user),
                     !.pc = "patch"]]
        /\ UNCHANGED <<backend, writes>>

Write(i, r, method, kind, id, payload, accepted) ==
    [inv |-> i, method |-> method, kind |-> kind, id |-> id, payload |-> payload,
     accepted |-> accepted, started |-> r.started, read |-> r.current.version,
     calls |-> Len(r.calls)]

\* mutant: on a conflict the entity is read again and the update retried
on_conflict_retry(r) ==
    [r EXCEPT !.pc = IF r.name = "updateUserStory" THEN "get_user_story"
                     ELSE IF startswith_hash(r.arguments["taskId"]) THEN "get_task_by_ref"
                     ELSE "get_task"]

\* what call_tool does when the backend rejects its PATCH
on_conflict(r) == Fail(r, "Conflict")

\* mutant: after its write the tool reads the entity again to report it
after_write_reread(r) ==
    [r EXCEPT !.pc = IF IsUserStoryTool(r.name) THEN "get_user_story" ELSE "get_task"]

\* the entity returned by the write is formatted and the text returned
after_write(r) == Succeed(r)

\* update_user_story / update_task: the PATCH, taken by the backend only at the
\* entity's current version
Patch(i) ==
    LET r == inv[i]
        is_story == r.name = "updateUserStory"
        entities == IF is_story THEN stories ELSE tasks
        k == IndexOfId(entities, r.current.id)
        payload == model_dump(r.update_data)
        accepted == BackendAccepts(entities[k], payload)
        r1 == Logged(r, Call(IF is_story THEN "update_user_story" ELSE "update_task",
                             r.current.id, 0, <<>>))
        patched == [entities EXCEPT ![k] = ApplyPatch(@, payload)]
    IN  /\ r.pc = "patch"
        /\ k # 0
        /\ writes' = Append(writes, Write(i, r, "PATCH", IF is_story THEN "userstory" ELSE "task",
                                          r.current.id, payload, accepted))
        /\ inv' = [inv EXCEPT ![i] = IF accepted THEN after_write(r1) ELSE on_conflict(r1)]
        /\ stories' = IF accepted /\ is_story THEN patched ELSE stories
        /\ tasks' = IF accepted /\ ~is_story THEN patched ELSE tasks
        /\ UNCHANGED <<us_statuses, task_statuses, memberships>>

\* create_user_story / create_task: the POST
Post(i) ==
    LET r == inv[i]
        is_story == r.name = "createUserStory"
        payload == model_dump(CreateRequest(r))
        created == CreateEntity(IF is_story THEN stories ELSE tasks, payload,
                                IF is_story THEN us_statuses[r.project_id]
                                ELSE task_statuses[r.project_id])
        r1 == Logged(r, Call(IF is_story THEN "create_user_story" ELSE "create_task",
                             0, r.project_id, <<>>))
    IN  /\ r.pc = "post"
        /\ writes' = Append(writes, Write(i, r, "POST", IF is_story THEN "userstory" ELSE "task",
                                          created.id, payload, TRUE))
        /\ inv' = [inv EXCEPT ![i] = after_write(r1)]
        /\ stories' = IF is_story THEN Append(stories, created) ELSE stories
        /\ tasks' = IF is_story THEN tasks ELSE Append(tasks, created)
        /\ UNCHANGED <<us_statuses, task_statuses, memberships>>

-----------------------------------------------------------------------------
(* Spec: one tool invocation with every combination of the optional        *)
(* arguments, against a backend whose entity versions vary.                *)

\* highest entity version in the initial backend
MaxVersion == 3

WithVersions(entities, v) ==
    [k \in 1..Len(entities) |-> [entities[k] EXCEPT !.version = v + k - 1]]

RECURSIVE WithRequired(_, _, _)
WithRequired(bags, keys, values) ==
    IF keys = {} THEN bags
    ELSE LET key == CHOOSE k \in keys : TRUE
         IN  WithRequired({WithKey(bag, key, v) : bag \in bags, v \in values[key]},
                          keys \ {key}, values)

RECURSIVE WithOptional(_, _, _)
WithOptional(bags, keys, values) ==
    IF keys = {} THEN bags
    ELSE LET key == CHOOSE k \in keys : TRUE
         IN  WithOptional(bags \cup {WithKey(bag, key, v) : bag \in bags, v \in values[key]},
                          keys \ {key}, values)

\* the arguments of a tool: every required key with one of its values, and each
\* optional key absent or with one of its values
Bags(required, optional) ==
    WithOptional(WithRequired({<<>>}, DOMAIN required, required), DOMAIN optional, optional)

StatusArgs == {<<>>, <<"a">>, <<"b", "A">>, <<"b", "b">>}

AssigneeArgs == {<<"A">>, <<"b", "b">>, <<"d">>}

UpdateUserStoryArgs ==
    Bags([userStoryIdentifier |-> {<<"1", "0">>, <<"#", "7">>, <<"1", "7">>, <<"7">>}],
         [projectIdentifier |-> {<<"1">>, <<"d", "1">>},
          subject |-> {<<"s">>},
          description |-> {<<>>},
          tags |-> {<<TagStr(<<"x">>)>>},
          points |-> {<<"7">>},
          dueDate |-> {<<"d">>},
          status |-> StatusArgs,
          assignedTo |-> AssigneeArgs])

UpdateTaskArgs ==
    Bags([taskId |-> {<<"7", "0">>, <<"#", "1">>, <<"7", "1">>, <<"#", "7">>},
          projectIdentifier |-> {<<"1">>, <<"d", "1">>}],
         [subject |-> {<<"s">>},
          description |-> {<<>>},
          comment |-> {<<"c">>},
          status |-> StatusArgs,
          assignedTo |-> AssigneeArgs])

CreateUserStoryArgs ==
    Bags([projectIdentifier |-> {<<"1">>, <<"d", "1">>, <<"0">>},
          subject |-> {<<"s">>}],
         [description |-> {<<>>, <<"t">>},
          status |-> StatusArgs])

CreateTaskArgs ==
    Bags([projectIdentifier |-> {<<"1">>, <<"d", "1">>},
          userStoryIdentifier |-> {<<"1", "0">>, <<"#", "7">>, <<"#", "1">>},
          subject |-> {<<"s">>}],
         [description |-> {<<"t">>},
          status |-> StatusArgs])

Init ==
    /\ \E v \in 1..MaxVersion :
          /\ stories = WithVersions(InitStories, v)
          /\ tasks = WithVersions(InitTasks, v)
    /\ us_statuses = InitUsStatuses
    /\ task_statuses = InitTaskStatuses
    /\ memberships = InitMemberships
    /\ inv = [i \in Inv |-> IdleInv]
    /\ writes = <<>>

BeginUpdateUserStory ==
    inv[1].pc = "idle" /\ \E a \in UpdateUserStoryArgs : Begin(1, "updateUserStory", a)

BeginUpdateTask ==
    inv[1].pc = "idle" /\ \E a \in UpdateTaskArgs : Begin(1, "updateTask", a)

BeginCreateUserStory ==
    inv[1].pc = "idle" /\ \E a \in CreateUserStoryArgs : Begin(1, "createUserStory", a)

BeginCreateTask ==
    inv[1].pc = "idle" /\ \E a \in CreateTaskArgs : Begin(1, "createTask", a)

Next ==
    \/ BeginUpdateUserStory
    \/ BeginUpdateTask
    \/ BeginCreateUserStory
    \/ BeginCreateTask
    \/ ResolveProject(1)
    \/ ListUserStories(1)
    \/ GetUserStory(1)
    \/ GetTask(1)
    \/ GetTaskByRef(1)
    \/ FetchStatuses(1)
    \/ FetchMembers(1)
    \/ Patch(1)
    \/ Post(1)

Spec == Init /\ [][Next]_vars

-----------------------------------------------------------------------------
(* Properties of one invocation (Spec).                                    *)

\* the backend holds exactly what it held before the invocation
BackendUntouched ==
    \E v \in 1..MaxVersion :
        /\ stories = WithVersions(InitStories, v)
        /\ tasks = WithVersions(InitTasks, v)

\* the invocation in slot i fetched a status list
StatusesFetched(i) ==
    \E k \in 1..Len(inv[i].calls) :
        inv[i].calls[k].op \in {"get_user_story_statuses", "get_task_statuses"}

\* the invocation in slot i fetched a member list
MembersFetched(i) ==
    \E k \in 1..Len(inv[i].calls) : inv[i].calls[k].op = "list_project_members"

\* no status of the list the tool fetched has the supplied name, case-insensitively
StatusUnresolved(i) ==
    /\ StatusesFetched(i)
    /\ \A k \in 1..Len(fetched_statuses(inv[i])) :
          lower(fetched_statuses(inv[i])[k].name) # lower(inv[i].arguments["status"])

\* no member of the fetched list has the supplied name as username or full name
AssigneeUnresolved(i) ==
    /\ MembersFetched(i)
    /\ \A k \in 1..Len(memberships[inv[i].project_id]) :
          ~member_matches(memberships[inv[i].project_id][k], inv[i].arguments["assignedTo"])

\* C1: an updateUserStory or updateTask invocation whose supplied status name or
\* assignee name does not resolve ends with an error result, sends no PATCH and
\* leaves the backend entity as it was, whatever other fields were supplied.
C1_UnresolvedNameAbortsUpdate ==
    \A i \in Inv :
        (/\ inv[i].pc = "done"
         /\ IsUpdateTool(inv[i].name)
         /\ StatusUnresolved(i) \/ AssigneeUnresolved(i))
        => /\ ~inv[i].result.ok
           /\ inv[i].result.error \in {"StatusNotFound", "MemberNotFound"}
           /\ \A k \in 1..Len(writes) : writes[k].inv # i
           /\ \A k \in 1..Len(inv[i].calls) :
                 inv[i].calls[k].op \notin {"update_user_story", "update_task"}
           /\ BackendUntouched

\* a finished update whose status resolved, whose assignee did not, and which
\* supplied every other field as well
C1_Witness ==
    /\ inv[1].pc = "done"
    /\ inv[1].name = "updateUserStory"
    /\ {"subject", "description", "tags", "points", "dueDate"} \subseteq DOMAIN inv[1].arguments
    /\ {"subject", "description", "tags", "points", "due_date"} \subseteq DOMAIN inv[1].update_data
    /\ "status" \in DOMAIN inv[1].update_data
    /\ AssigneeUnresolved(1)
    /\ inv[1].result.error = "MemberNotFound"

\* C2: every PATCH body carries a version field equal to the version of the
\* snapshot that the same invocation read, whichever other fields it carries
\* (so that, with no other writer, the backend takes it).
C2_PatchCarriesReadVersion ==
    \A k \in 1..Len(writes) :
        writes[k].method = "PATCH"
        => /\ "version" \in DOMAIN writes[k].payload
           /\ writes[k].payload["version"] = writes[k].read
           /\ writes[k].read = inv[writes[k].inv].current.version
           /\ inv[writes[k].inv].current.id = writes[k].id
           /\ writes[k].accepted

\* a PATCH of a task read at version 3 that also carries a status and a subject
C2_Witness ==
    \E k \in 1..Len(writes) :
        /\ writes[k].method = "PATCH"
        /\ writes[k].kind = "task"
        /\ writes[k].payload["version"] = 3
        /\ {"status", "subject", "description", "comment", "assigned_to"}
              \subseteq DOMAIN writes[k].payload

\* C9: in createUserStory, createTask, updateUserStory and updateTask alike, a
\* supplied status name that matches no status of the fetched list ends the
\* invocation with a status-not-found error carrying all the names of the list,
\* and no POST or PATCH is sent.
C9_UnknownStatusIsAnError ==
    \A i \in Inv :
        (inv[i].pc = "done" /\ StatusUnresolved(i))
        => /\ inv[i].result.error = "StatusNotFound"
           /\ inv[i].result.names = status_names(fetched_statuses(inv[i]))
           /\ \A k \in 1..Len(writes) : writes[k].inv # i

\* C9 for the update tools only, where the code does what the claim says
C9_UpdateUnknownStatusIsAnError ==
    \A i \in Inv :
        (inv[i].pc = "done" /\ IsUpdateTool(inv[i].name) /\ StatusUnresolved(i))
        => /\ inv[i].result.error = "StatusNotFound"
           /\ inv[i].result.names = status_names(fetched_statuses(inv[i]))
           /\ \A k \in 1..Len(writes) : writes[k].inv # i

-----------------------------------------------------------------------------
(* SpecResolve: the resolvers on every identifier string up to MaxIdLen,   *)
(* through the tools getProject and getUserStory.                          *)

IdChars == {"#", "0", "1", "7", "²", "d"}

Identifiers == Strings(IdChars, MaxIdLen)

ProjectIdentifiers == {<<>>, <<"1">>, <<"7">>, <<"d">>, <<"d", "1">>, <<"0">>, <<"²">>}

GetProjectArgs == Bags([projectIdentifier |-> Identifiers], <<>>)

GetUserStoryArgs ==
    Bags([userStoryIdentifier |-> Identifiers], [projectIdentifier |-> ProjectIdentifiers])

InitFixed ==
    /\ stories = InitStories
    /\ tasks = InitTasks
    /\ us_statuses = InitUsStatuses
    /\ task_statuses = InitTaskStatuses
    /\ memberships = InitMemberships
    /\ inv = [i \in Inv |-> IdleInv]
    /\ writes = <<>>

BeginGetProject ==
    inv[1].pc = "idle" /\ \E a \in GetProjectArgs : Begin(1, "getProject", a)

BeginGetUserStory ==
    inv[1].pc = "idle" /\ \E a \in GetUserStoryArgs : Begin(1, "getUserStory", a)

NextResolve ==
    \/ BeginGetProject
    \/ BeginGetUserStory
    \/ ResolveProject(1)
    \/ GetProject(1)
    \/ ListUserStories(1)
    \/ GetUserStory(1)

SpecResolve == InitFixed /\ [][NextResolve]_vars

\* the identifier is one or more of the decimal digits 0..9 and nothing else
AllDecimal(s) ==
    Len(s) > 0 /\ \A k \in 1..Len(s) :
        s[k] \in {"0", "1", "2", "3", "4", "5", "6", "7", "8", "9"}

\* resolve_user_story_id has returned in slot i
UserStoryResolved(i) ==
    inv[i].name = "getUserStory" /\ inv[i].user_story_id # 0

\* C5: resolve_user_story_id with an identifier that starts with '#' and a
\* project identifier that is absent or empty fails with the missing-parameter
\* error before the resolver makes any backend call.
C5_RefWithoutProjectFails ==
    \A i \in Inv :
        (/\ inv[i].name = "getUserStory"
         /\ inv[i].arguments["userStoryIdentifier"] # <<>>
         /\ Head(inv[i].arguments["userStoryIdentifier"]) = "#"
         /\ \/ "projectIdentifier" \notin DOMAIN inv[i].arguments
            \/ inv[i].arguments["projectIdentifier"] = <<>>)
        => /\ inv[i].pc = "done"
           /\ inv[i].result.error = "ProjectRequired"
           /\ inv[i].calls = <<>>

\* "#7" with an empty project identifier was refused without a backend call
C5_Witness ==
    /\ inv[1].name = "getUserStory"
    /\ inv[1].arguments["userStoryIdentifier"] = <<"#", "7">>
    /\ "projectIdentifier" \in DOMAIN inv[1].arguments
    /\ inv[1].arguments["projectIdentifier"] = <<>>
    /\ inv[1].result.error = "ProjectRequired"
    /\ inv[1].calls = <<>>

\* the stories of a project whose ref, written in decimal, is the text
IndicesWithRef(project_id, text) ==
    {k \in 1..Len(stories) : stories[k].project = project_id /\ str_int(stories[k].ref) = text}

\* C6: with '#R' and a project identifier the resolver fetches the project first,
\* then lists that project's stories, and returns the id of the first listed
\* story whose ref written in decimal is exactly R ('#7' gives story 10 of
\* project 1, '#07' matches nothing); without a match it fails with not-found;
\* an identifier without '#' is parsed as an integer and returned with no
\* backend call.
C6_UserStoryResolution ==
    \A i \in Inv :
        LET r == inv[i]
            ident == r.arguments["userStoryIdentifier"]
            text == SubSeq(ident, 2, Len(ident))
        IN  r.name = "getUserStory" =>
            /\ (UserStoryResolved(i) /\ Len(ident) > 0 /\ ident[1] = "#") =>
                  /\ Len(r.calls) >= 2
                  /\ r.calls[1].op \in {"get_project", "get_project_by_slug"}
                  /\ r.calls[2].op = "list_user_stories"
                  /\ r.calls[2].project = r.scan_project_id
                  /\ \E k \in IndicesWithRef(r.scan_project_id, text) :
                        /\ r.user_story_id = stories[k].id
                        /\ \A j \in IndicesWithRef(r.scan_project_id, text) : k <= j
            /\ (ident = <<"#", "7">> /\ UserStoryResolved(i) /\ r.scan_project_id = 1)
                  => r.user_story_id = 10
            /\ ident = <<"#", "0", "7">> => ~UserStoryResolved(i)
            /\ (/\ Len(r.calls) >= 2
                /\ r.calls[2].op = "list_user_stories"
                /\ IndicesWithRef(r.scan_project_id, text) = {})
                  => r.pc = "done" /\ r.result.error = "RefNotFound" /\ Len(r.calls) = 2
            /\ (UserStoryResolved(i) /\ (Len(ident) = 0 \/ ident[1] # "#")) =>
                  /\ AllDecimal(ident)
                  /\ r.user_story_id = int_value(ident)
                  /\ \A k \in 1..Len(r.calls) : r.calls[k].op = "get_user_story"
                  /\ r.pc = "get_user_story" => r.calls = <<>>

\* '#7' in the project with slug "d1" resolved to story 17 after one project
\* fetch and one story listing
C6_Witness ==
    /\ inv[1].name = "getUserStory"
    /\ inv[1].arguments["userStoryIdentifier"] = <<"#", "7">>
    /\ inv[1].user_story_id = 17
    /\ inv[1].pc = "get_user_story"
    /\ Len(inv[1].calls) = 2
    /\ inv[1].calls[1].op = "get_project_by_slug"
    /\ inv[1].calls[2].op = "list_user_stories"

\* '#07' was looked up in project 1, which has a story with ref 7, and not found
C6_WitnessLeadingZero ==
    /\ inv[1].name = "getUserStory"
    /\ inv[1].arguments["userStoryIdentifier"] = <<"#", "0", "7">>
    /\ inv[1].scan_project_id = 1
    /\ inv[1].result.error = "RefNotFound"

\* C7: resolve_project_id fetches by numeric id exactly when the identifier is
\* made of decimal digits only and by slug otherwise (the empty string
\* included), makes exactly one backend fetch, returns the id of the fetched
\* project, and fails when the backend has no such project.
C7_ProjectResolution ==
    \A i \in Inv :
        LET r == inv[i]
            identifier == r.arguments["projectIdentifier"]
        IN  (r.name = "getProject" /\ r.pc \notin {"idle", "resolve_project"}) =>
            /\ Len(r.calls) >= 1
            /\ AllDecimal(identifier) =>
                  r.calls[1].op = "get_project" /\ r.calls[1].id = int_value(identifier)
            /\ ~AllDecimal(identifier) =>
                  r.calls[1].op = "get_project_by_slug" /\ r.calls[1].slug = identifier
            /\ r.pc = "get_project" =>
                  /\ Len(r.calls) = 1
                  /\ \E k \in 1..Len(Projects) :
                        /\ Projects[k].id = r.project_id
                        /\ \/ AllDecimal(identifier) /\ Projects[k].id = int_value(identifier)
                           \/ ~AllDecimal(identifier) /\ Projects[k].slug = identifier
            /\ (r.project_id = 0) => r.pc = "done" /\ ~r.result.ok /\ Len(r.calls) = 1

\* C7 on the identifiers without a superscript digit, where the code does what
\* the claim says
C7_ProjectResolutionWithoutSuperscripts ==
    \A i \in Inv :
        (/\ inv[i].name = "getProject"
         /\ \A k \in 1..Len(inv[i].arguments["projectIdentifier"]) :
               inv[i].arguments["projectIdentifier"][k] # "²")
        => LET r == inv[i]
               identifier == r.arguments["projectIdentifier"]
           IN  r.pc \notin {"idle", "resolve_project"} =>
               /\ Len(r.calls) >= 1
               /\ AllDecimal(identifier) =>
                     r.calls[1].op = "get_project" /\ r.calls[1].id = int_value(identifier)
               /\ ~AllDecimal(identifier) =>
                     r.calls[1].op = "get_project_by_slug" /\ r.calls[1].slug = identifier
               /\ (r.project_id = 0) => r.pc = "done" /\ ~r.result.ok /\ Len(r.calls) = 1

-----------------------------------------------------------------------------
(* SpecLookup: the status and member lookups of the update tools against   *)
(* every status list and member list of up to MaxListLen entries.          *)

StatusNames == {<<"a">>, <<"A">>, <<"a", "b">>, <<"A", "b">>, <<"b">>, <<"A", "B">>}

ExtraInfos == {NoExtraInfo, [present |-> TRUE, username |-> <<"b">>, full_name |-> <<"A">>]}

\* the members with user id user: each name given directly, or absent
Members(user) ==
    {[user |-> user, username |-> u, full_name |-> f, user_extra_info |-> e] :
        u \in {None, <<"a">>, <<"B">>}, f \in {None, <<"a">>}, e \in ExtraInfos}

MemberLists ==
    UNION {{m \in [1..n -> UNION {Members(20 + k) : k \in 1..n}] :
                \A k \in 1..n : m[k].user = 20 + k} : n \in 0..MaxListLen}

LookupStatusArgs == {<<>>, <<"a">>, <<"a", "B">>, <<"B">>}

LookupAssigneeArgs == {<<"a">>, <<"A">>, <<"b">>, <<"a", "b">>}

LookupUserStoryArgs ==
    Bags([userStoryIdentifier |-> {<<"1", "0">>}],
         [status |-> LookupStatusArgs, assignedTo |-> LookupAssigneeArgs])

LookupTaskArgs ==
    Bags([taskId |-> {<<"7", "0">>}, projectIdentifier |-> {<<"1">>}],
         [status |-> LookupStatusArgs, assignedTo |-> LookupAssigneeArgs])

InitLookup ==
    /\ stories = InitStories
    /\ tasks = InitTasks
    /\ inv = [i \in Inv |-> IdleInv]
    /\ writes = <<>>
    /\ \/ /\ \E n \in 0..MaxListLen : \E names \in [1..n -> StatusNames] :
                /\ us_statuses = [InitUsStatuses EXCEPT
                      ![1] = [k \in 1..n |-> [id |-> k, name |-> names[k]]]]
                /\ task_statuses = [InitTaskStatuses EXCEPT
                      ![1] = [k \in 1..n |-> [id |-> 10 + k, name |-> names[k]]]]
          /\ memberships = InitMemberships
       \/ /\ us_statuses = InitUsStatuses
          /\ task_statuses = InitTaskStatuses
          /\ \E members \in MemberLists :
                memberships = [InitMemberships EXCEPT ![1] = members]

BeginLookupUserStory ==
    inv[1].pc = "idle" /\ \E a \in LookupUserStoryArgs : Begin(1, "updateUserStory", a)

BeginLookupTask ==
    inv[1].pc = "idle" /\ \E a \in LookupTaskArgs : Begin(1, "updateTask", a)

NextLookup ==
    \/ BeginLookupUserStory
    \/ BeginLookupTask
    \/ ResolveProject(1)
    \/ GetUserStory(1)
    \/ GetTask(1)
    \/ FetchStatuses(1)
    \/ FetchMembers(1)
    \/ Patch(1)

SpecLookup == InitLookup /\ [][NextLookup]_vars

SameLetter(c, d) == c = d \/ {c, d} = {"a", "A"} \/ {c, d} = {"b", "B"}

\* the two strings are equal up to the case of their letters
SameIgnoringCase(x, y) ==
    Len(x) = Len(y) /\ \A k \in 1..Len(x) : SameLetter(x[k], y[k])

\* the positions of the fetched status list whose name is the supplied name
StatusHits(i) ==
    {k \in 1..Len(fetched_statuses(inv[i])) :
        SameIgnoringCase(fetched_statuses(inv[i])[k].name, inv[i].arguments["status"])}

Least(S) == CHOOSE k \in S : \A j \in S : k <= j

\* C8: the supplied status name is matched against each status name by
\* case-insensitive exact equality and the update carries the id of the first
\* matching status of the fetched list, also when several statuses have the
\* same name up to case.
C8_FirstCaseInsensitiveStatus ==
    \A i \in Inv :
        (IsUpdateTool(inv[i].name) /\ StatusesFetched(i)) =>
            /\ StatusHits(i) # {} =>
                  /\ "status" \in DOMAIN inv[i].update_data
                  /\ inv[i].update_data["status"] =
                        fetched_statuses(inv[i])[Least(StatusHits(i))].id
            /\ StatusHits(i) = {} => "status" \notin DOMAIN inv[i].update_data
            /\ \A k \in 1..Len(writes) :
                  (writes[k].inv = i /\ StatusHits(i) # {}) =>
                     writes[k].payload["status"] =
                        fetched_statuses(inv[i])[Least(StatusHits(i))].id

\* "aB" resolved to the first of two statuses named "Ab" and "ab"
C8_Witness ==
    /\ inv[1].name = "updateUserStory"
    /\ "status" \in DOMAIN inv[1].arguments
    /\ inv[1].arguments["status"] = <<"a", "B">>
    /\ Len(us_statuses[1]) >= 2
    /\ us_statuses[1][1].name = <<"A", "b">>
    /\ us_statuses[1][2].name = <<"a", "b">>
    /\ inv[1].pc = "done"
    /\ "status" \in DOMAIN inv[1].update_data
    /\ inv[1].update_data["status"] = 1

\* the name a member goes by: the direct field, else the one of user_extra_info
EffectiveName(member, key) ==
    IF member[key] # None /\ member[key] # <<>> THEN member[key]
    ELSE IF member.user_extra_info.present THEN member.user_extra_info[key]
    ELSE None

UsernameHit(member, name) ==
    EffectiveName(member, "username") # None
    /\ SameIgnoringCase(EffectiveName(member, "username"), name)

FullNameHit(member, name) ==
    EffectiveName(member, "full_name") # None
    /\ SameIgnoringCase(EffectiveName(member, "full_name"), name)

\* the positions of the fetched member list that the supplied name matches
MemberHits(i) ==
    {k \in 1..Len(memberships[inv[i].project_id]) :
        \/ UsernameHit(memberships[inv[i].project_id][k], inv[i].arguments["assignedTo"])
        \/ FullNameHit(memberships[inv[i].project_id][k], inv[i].arguments["assignedTo"])}

\* C10: the assignee is resolved by one scan of the member list in order; a
\* member matches when its effective username or its effective full name
\* (direct field, else user_extra_info) equals the supplied name up to case; the
\* update carries the user id of the first matching member, so an earlier
\* member's full-name match wins over a later member's username match.
C10_FirstMatchingMember ==
    \A i \in Inv :
        (IsUpdateTool(inv[i].name) /\ MembersFetched(i)) =>
            /\ MemberHits(i) # {} =>
                  /\ "assigned_to" \in DOMAIN inv[i].update_data
                  /\ inv[i].update_data["assigned_to"] =
                        memberships[inv[i].project_id][Least(MemberHits(i))].user
            /\ MemberHits(i) = {} =>
                  /\ "assigned_to" \notin DOMAIN inv[i].update_data
                  /\ inv[i].result.error = "MemberNotFound"

\* the first member matches by the full name of its user_extra_info only, the
\* second by its username, and the first is assigned
C10_Witness ==
    /\ inv[1].name = "updateTask"
    /\ inv[1].pc = "done"
    /\ "assignedTo" \in DOMAIN inv[1].arguments
    /\ inv[1].arguments["assignedTo"] = <<"a">>
    /\ Len(memberships[1]) >= 2
    /\ ~UsernameHit(memberships[1][1], <<"a">>)
    /\ memberships[1][1].full_name = None
    /\ FullNameHit(memberships[1][1], <<"a">>)
    /\ UsernameHit(memberships[1][2], <<"a">>)
    /\ "assigned_to" \in DOMAIN inv[1].update_data
    /\ inv[1].update_data["assigned_to"] = memberships[1][1].user
    /\ \E k \in 1..Len(writes) : writes[k].payload["assigned_to"] = 21

-----------------------------------------------------------------------------
(* SpecConc: NumInv update invocations on the same story or the same task, *)
(* interleaved at their awaits in every order (one after the other too).   *)

ConcUserStoryArgs ==
    Bags([userStoryIdentifier |-> {<<"1", "0">>}, subject |-> {<<"s">>, <<"t">>}],
         [status |-> {<<"b", "A">>, <<"b", "b">>}])

ConcTaskArgs ==
    Bags([taskId |-> {<<"#", "1">>, <<"7", "0">>}, projectIdentifier |-> {<<"1">>},
          subject |-> {<<"s">>, <<"t">>}], <<>>)

BeginConcUserStory(i) ==
    inv[i].pc = "idle" /\ \E a \in ConcUserStoryArgs : Begin(i, "updateUserStory", a)

BeginConcTask(i) ==
    inv[i].pc = "idle" /\ \E a \in ConcTaskArgs : Begin(i, "updateTask", a)

NextConc ==
    \E i \in Inv :
        \/ BeginConcUserStory(i)
        \/ BeginConcTask(i)
        \/ ResolveProject(i)
        \/ GetUserStory(i)
        \/ GetTask(i)
        \/ GetTaskByRef(i)
        \/ FetchStatuses(i)
        \/ Patch(i)

SpecConc == InitFixed /\ [][NextConc]_vars

SameEntity(w1, w2) == w1.kind = w2.kind /\ w1.id = w2.id

\* the accepted PATCHes of the entity of write l among the first n writes
AcceptedBefore(l, n) ==
    {k \in 1..n : writes[k].accepted /\ SameEntity(writes[k], writes[l])}

\* C3: nothing read in one invocation is used by another: a PATCH of an
\* invocation that began after an accepted PATCH of the same entity never
\* carries the version that earlier PATCH carried but a later one; when no
\* other write comes in between, it carries exactly the incremented version
\* and is accepted.
C3_SecondUpdateReadsFreshVersion ==
    \A l \in 1..Len(writes) :
        /\ \A k \in AcceptedBefore(l, writes[l].started) :
              /\ writes[l].payload["version"] # writes[k].payload["version"]
              /\ writes[l].payload["version"] >= writes[k].payload["version"] + 1
        /\ AcceptedBefore(l, l - 1) = AcceptedBefore(l, writes[l].started) =>
              /\ writes[l].payload["version"] =
                    1 + Cardinality(AcceptedBefore(l, writes[l].started))
              /\ writes[l].accepted
        /\ \E c \in 1..writes[l].calls :
              inv[writes[l].inv].calls[c].op \in {"get_user_story", "get_task", "get_task_by_ref"}
        /\ "status" \in DOMAIN writes[l].payload => StatusesFetched(writes[l].inv)

\* two updates of story 10, the second begun after the first was accepted at
\* version 1, and the second accepted at version 2
C3_Witness ==
    /\ Len(writes) >= 2
    /\ writes[1].kind = "userstory" /\ writes[2].kind = "userstory"
    /\ writes[1].accepted /\ writes[1].payload["version"] = 1
    /\ writes[2].started = 1
    /\ writes[2].accepted /\ writes[2].payload["version"] = 2
    /\ stories[1].version = 3

\* the writes sent by the invocation of slot i
WritesOf(i) == {k \in 1..Len(writes) : writes[k].inv = i}

\* C4: of the PATCHes of one entity that carry the same version at most one is
\* applied; an invocation whose PATCH the backend rejects ends with the conflict
\* error, having sent that one PATCH and made no backend call after it; the
\* version of an entity counts the PATCHes applied to it, so none is lost.
C4_AtMostOneOfTwoConcurrentWrites ==
    /\ \A k, l \in 1..Len(writes) :
          (/\ k # l
           /\ SameEntity(writes[k], writes[l])
           /\ writes[k].payload["version"] = writes[l].payload["version"])
          => ~(writes[k].accepted /\ writes[l].accepted)
    /\ \A l \in 1..Len(writes) :
          ~writes[l].accepted =>
             /\ inv[writes[l].inv].pc = "done"
             /\ inv[writes[l].inv].result.error = "Conflict"
             /\ WritesOf(writes[l].inv) = {l}
             /\ Len(inv[writes[l].inv].calls) = writes[l].calls + 1
    /\ stories[1].version = 1 + Cardinality({k \in 1..Len(writes) :
          writes[k].accepted /\ writes[k].kind = "userstory" /\ writes[k].id = 10})
    /\ tasks[1].version = 1 + Cardinality({k \in 1..Len(writes) :
          writes[k].accepted /\ writes[k].kind = "task" /\ writes[k].id = 70})

\* two invocations read task 70 at version 1 before either wrote: the first
\* PATCH was applied, the second was rejected and its subject did not land
C4_Witness ==
    /\ Len(writes) = 2
    /\ writes[1].kind = "task" /\ writes[2].kind = "task"
    /\ writes[1].payload["version"] = 1 /\ writes[2].payload["version"] = 1
    /\ writes[1].accepted /\ ~writes[2].accepted
    /\ writes[1].payload["subject"] # writes[2].payload["subject"]
    /\ tasks[1].data["subject"] = writes[1].payload["subject"]
    /\ tasks[1].version = 2
    /\ inv[writes[2].inv].result.error = "Conflict"

-----------------------------------------------------------------------------
(* SpecUpdate: the two update tools with every optional field absent,      *)
(* empty or set, on stories with role-based, scalar and no points.         *)

UpdateStoryFieldArgs ==
    Bags([userStoryIdentifier |-> {<<"1", "0">>, <<"1", "1">>, <<"1", "7">>}],
         [subject |-> {<<>>, <<"s">>},
          description |-> {<<>>},
          tags |-> {<<>>},
          points |-> {<<>>, <<"7">>, <<"d">>},
          dueDate |-> {<<>>},
          status |-> {<<>>, <<"a">>, <<"b">>},
          assignedTo |-> {<<>>, <<"A">>}])

UpdateTaskFieldArgs ==
    Bags([taskId |-> {<<"7", "0">>, <<"7", "1">>, <<"#", "1">>},
          projectIdentifier |-> {<<"1">>, <<"d", "1">>}],
         [subject |-> {<<>>, <<"s">>},
          description |-> {<<>>},
          tags |-> {<<>>, <<TagStr(<<"x">>)>>},
          comment |-> {<<>>, <<"c">>},
          status |-> {<<>>, <<"a">>, <<"b", "a">>},
          assignedTo |-> {<<>>, <<"b">>}])

BeginUpdateStoryFields ==
    inv[1].pc = "idle" /\ \E a \in UpdateStoryFieldArgs : Begin(1, "updateUserStory", a)

BeginUpdateTaskFields ==
    inv[1].pc = "idle" /\ \E a \in UpdateTaskFieldArgs : Begin(1, "updateTask", a)

NextUpdate ==
    \/ BeginUpdateStoryFields
    \/ BeginUpdateTaskFields
    \/ ResolveProject(1)
    \/ GetUserStory(1)
    \/ GetTask(1)
    \/ GetTaskByRef(1)
    \/ FetchStatuses(1)
    \/ FetchMembers(1)
    \/ Patch(1)

SpecUpdate == Init /\ [][NextUpdate]_vars

\* the tool arguments that name an updatable field
UpdatableFields(name) ==
    IF name = "updateUserStory"
    THEN {"subject", "description", "tags", "points", "dueDate", "status", "assignedTo"}
    ELSE {"subject", "description", "tags", "comment", "status", "assignedTo"}

\* the fields whose argument value is the value the backend is sent
CopiedFields == {"subject", "description", "tags", "dueDate", "comment"}

\* the backend's name of a field of the tool arguments
BackendName(key) ==
    CASE key = "dueDate" -> "due_date"
      [] key = "assignedTo" -> "assigned_to"
      [] OTHER -> key

\* the PATCH writes[k] was sent by updateUserStory
IsStoryPatch(k) == writes[k].method = "PATCH" /\ writes[k].kind = "userstory"

\* the points of the story as the invocation that sent writes[k] read them
PointsRead(k) == EntityPoints(inv[writes[k].inv].current)

\* the arguments of the invocation that sent writes[k]
ArgsOf(k) == inv[writes[k].inv].arguments

\* C11: whether an update field is sent is decided by the presence of its key in
\* the tool arguments, not by the truthiness of its value: every updatable field
\* whose key is present, an empty string or an empty tag list included, is in the
\* PATCH body, with that value.
C11_PresenceDecidesInclusion ==
    \A k \in 1..Len(writes) :
        writes[k].method = "PATCH"
        => \A key \in UpdatableFields(inv[writes[k].inv].name) \cap DOMAIN ArgsOf(k) :
              /\ BackendName(key) \in DOMAIN writes[k].payload
              /\ key \in CopiedFields
                    => writes[k].payload[BackendName(key)] = ArgsOf(k)[key]

\* C11 for subject, description, tags and dueDate, which the code copies on presence
C11_DirectFieldsSentOnPresence ==
    \A k \in 1..Len(writes) :
        writes[k].method = "PATCH"
        => \A key \in {"subject", "description", "tags", "dueDate"} \cap DOMAIN ArgsOf(k) :
              /\ BackendName(key) \in DOMAIN writes[k].payload
              /\ writes[k].payload[BackendName(key)] = ArgsOf(k)[key]

\* a PATCH that carries an empty subject, an empty description and an empty tag list
C11_DirectFieldsWitness ==
    \E k \in 1..Len(writes) :
        /\ writes[k].method = "PATCH"
        /\ {"subject", "description", "tags"} \subseteq DOMAIN ArgsOf(k)
        /\ writes[k].payload["subject"] = <<>>
        /\ writes[k].payload["description"] = <<>>
        /\ writes[k].payload["tags"] = <<>>

\* C12: updateUserStory on a story whose current points are scalar or absent,
\* with points supplied as the empty string, builds an update whose points field
\* is present and is an explicit null.
C12_EmptyPointsClearScalar ==
    \A k \in 1..Len(writes) :
        (/\ IsStoryPatch(k)
         /\ PointsRead(k).kind \in {"scalar", "null"}
         /\ "points" \in DOMAIN ArgsOf(k)
         /\ ArgsOf(k)["points"] = <<>>)
        => /\ "points" \in DOMAIN inv[writes[k].inv].update_data
           /\ inv[writes[k].inv].update_data["points"].kind = "null"

\* C13: updateUserStory on a story whose current points are a non-empty role
\* mapping, with a points value that coerces to a number, sends a points field
\* that maps the first key of the current mapping to the coerced number.
C13_RolePointsSetFirstRole ==
    \A k \in 1..Len(writes) :
        (/\ IsStoryPatch(k)
         /\ PointsRead(k).kind = "dict"
         /\ Len(PointsRead(k).roles) > 0
         /\ "points" \in DOMAIN ArgsOf(k)
         /\ float_ok(ArgsOf(k)["points"]))
        => /\ "points" \in DOMAIN writes[k].payload
           /\ writes[k].payload["points"].kind = "dict"
           /\ writes[k].payload["points"].roles = <<Head(PointsRead(k).roles)>>
           /\ writes[k].payload["points"].values = <<float_value(ArgsOf(k)["points"])>>
           /\ inv[writes[k].inv].update_data["points"] = writes[k].payload["points"]

\* the story with points {4: 3, 5: 0} was sent points "7" and the PATCH carries {4: 7}
C13_Witness ==
    \E k \in 1..Len(writes) :
        /\ IsStoryPatch(k)
        /\ writes[k].accepted
        /\ PointsRead(k).roles = <<4, 5>>
        /\ PointsRead(k).values = <<3, 0>>
        /\ "points" \in DOMAIN ArgsOf(k)
        /\ ArgsOf(k)["points"] = <<"7">>
        /\ "points" \in DOMAIN writes[k].payload
        /\ writes[k].payload["points"].roles = <<4>>
        /\ writes[k].payload["points"].values = <<7>>

\* the role keys of a points mapping
RoleSet(points) == {points.roles[j] : j \in 1..Len(points.roles)}

\* C14: whenever updateUserStory emits a points field for a story with role-based
\* points, the role keys of the emitted mapping are the role keys of the story's
\* current mapping, also when the current mapping has more than one role.
C14_RoleSetPreserved ==
    \A k \in 1..Len(writes) :
        (/\ IsStoryPatch(k)
         /\ PointsRead(k).kind = "dict"
         /\ Len(PointsRead(k).roles) > 0
         /\ "points" \in DOMAIN writes[k].payload)
        => /\ writes[k].payload["points"].kind = "dict"
           /\ RoleSet(writes[k].payload["points"]) = RoleSet(PointsRead(k))

\* the invocation in slot i is an updateUserStory that read a story with
\* role-based points and was given a points value that is no number
BadRolePoints(i) ==
    /\ inv[i].name = "updateUserStory"
    /\ inv[i].current.id # 0
    /\ EntityPoints(inv[i].current).kind = "dict"
    /\ Len(EntityPoints(inv[i].current).roles) > 0
    /\ "points" \in DOMAIN inv[i].arguments
    /\ ~float_ok(inv[i].arguments["points"])

\* C15: updateUserStory on a story with role-based points, with a points value
\* that cannot be coerced to a number, leaves the points field out without any
\* error: the PATCH with the version and the other supplied fields is still sent.
C15_BadRolePointsOmitted ==
    \A i \in Inv :
        (/\ inv[i].pc = "done"
         /\ BadRolePoints(i)
         /\ inv[i].result.error \notin {"StatusNotFound", "MemberNotFound"})
        => /\ inv[i].result.ok
           /\ \E k \in 1..Len(writes) :
                 /\ writes[k].inv = i
                 /\ IsStoryPatch(k)
                 /\ "points" \notin DOMAIN writes[k].payload
                 /\ writes[k].payload["version"] = inv[i].current.version
                 /\ \A key \in {"subject", "description", "tags", "dueDate"}
                                  \cap DOMAIN inv[i].arguments :
                       writes[k].payload[BackendName(key)] = inv[i].arguments[key]

\* points "d" on the story with role-based points: the update went through
\* with its subject and its status, and without points
C15_Witness ==
    /\ inv[1].pc = "done"
    /\ BadRolePoints(1)
    /\ inv[1].arguments["points"] = <<"d">>
    /\ inv[1].result.ok
    /\ \E k \in 1..Len(writes) :
          /\ writes[k].inv = 1
          /\ writes[k].accepted
          /\ DOMAIN writes[k].payload = {"version", "subject", "status"}

\* C16: the PATCH body never contains a field whose key was absent from the tool
\* arguments, whatever the current entity holds for it: its keys are among
\* version and the backend names of the supplied fields.
C16_NoFieldBeyondArguments ==
    /\ \A k \in 1..Len(writes) :
          writes[k].method = "PATCH"
          => DOMAIN writes[k].payload \subseteq
                {"version"} \cup {BackendName(key) :
                    key \in UpdatableFields(inv[writes[k].inv].name) \cap DOMAIN ArgsOf(k)}
    /\ \A i \in Inv :
          IsUpdateTool(inv[i].name)
          => DOMAIN inv[i].update_data \subseteq
                {"version"} \cup {BackendName(key) :
                    key \in UpdatableFields(inv[i].name) \cap DOMAIN inv[i].arguments}

\* a task with a subject and a status was sent a description only, and the
\* PATCH carries the version and the description, nothing else
C16_Witness ==
    \E k \in 1..Len(writes) :
        /\ writes[k].method = "PATCH"
        /\ writes[k].kind = "task"
        /\ writes[k].accepted
        /\ inv[writes[k].inv].current.data["subject"] = <<"o">>
        /\ inv[writes[k].inv].current.data["status"] # 0
        /\ DOMAIN ArgsOf(k) = {"taskId", "projectIdentifier", "description"}
        /\ DOMAIN writes[k].payload = {"version", "description"}

\* C18: updateUserStory and updateTask resolve the status name and the assignee
\* name in the status list and the member list of the project the fetched entity
\* belongs to, also when the entity is addressed by numeric id together with a
\* projectIdentifier that names another project.
C18_LookupsInEntityProject ==
    \A i \in Inv :
        IsUpdateTool(inv[i].name)
        => \A k \in 1..Len(inv[i].calls) :
              inv[i].calls[k].op \in {"get_user_story_statuses", "get_task_statuses",
                                      "list_project_members"}
              => inv[i].calls[k].project = inv[i].current.project

\* C18 for updateUserStory, whose project_id is the project of the fetched story
C18_StoryLookupsInEntityProject ==
    \A i \in Inv :
        inv[i].name = "updateUserStory"
        => \A k \in 1..Len(inv[i].calls) :
              inv[i].calls[k].op \in {"get_user_story_statuses", "list_project_members"}
              => inv[i].calls[k].project = inv[i].current.project

-----------------------------------------------------------------------------
(* SpecDispatch: call_tool with any tool name, arguments that may lack the *)
(* required keys or hold identifiers of no entity, and a backend whose     *)
(* calls may fail.                                                         *)

ToolNames ==
    {"getProject", "getUserStory", "createUserStory", "createTask",
     "updateUserStory", "updateTask", "noSuchTool"}

DispatchArgs ==
    Bags(<<>>,
         [projectIdentifier |-> {<<"1">>, <<"0">>},
          userStoryIdentifier |-> {<<"1", "0">>, <<"#", "7">>, <<"d">>},
          taskId |-> {<<"7", "0">>, <<"#", "1">>, <<"d">>},
          subject |-> {<<"s">>},
          points |-> {<<"d">>},
          status |-> {<<"a">>, <<"d">>},
          assignedTo |-> {<<"A">>, <<"d">>}])

\* the positions at which a coroutine waits for the backend
Awaiting ==
    {"resolve_project", "get_project", "list_user_stories", "get_user_story",
     "get_task", "get_task_by_ref", "statuses", "members", "patch", "post"}

BeginAnyTool ==
    inv[1].pc = "idle" /\ \E name \in ToolNames, a \in DispatchArgs : Begin(1, name, a)

\* the awaited backend call raises: a TaigaMCPError of the client, or another
\* exception of the network library
BackendFails(i) ==
    /\ inv[i].pc \in Awaiting
    /\ \E error \in {"Transport", "Network"} :
          inv' = [inv EXCEPT ![i] = Fail(inv[i], error)]
    /\ UNCHANGED <<backend, writes>>

\* the coroutine in slot i resumes with the answer of the backend
Resume(i) ==
    \/ ResolveProject(i)
    \/ GetProject(i)
    \/ ListUserStories(i)
    \/ GetUserStory(i)
    \/ GetTask(i)
    \/ GetTaskByRef(i)
    \/ FetchStatuses(i)
    \/ FetchMembers(i)
    \/ Patch(i)
    \/ Post(i)

NextDispatch ==
    \/ BeginAnyTool
    \/ BackendFails(1)
    \/ ResolveProject(1)
    \/ GetProject(1)
    \/ ListUserStories(1)
    \/ GetUserStory(1)
    \/ GetTask(1)
    \/ GetTaskByRef(1)
    \/ FetchStatuses(1)
    \/ FetchMembers(1)
    \/ Patch(1)
    \/ Post(1)

SpecDispatch == InitFixed /\ [][NextDispatch]_vars

\* the texts call_tool returns: a success text, "Error: ..." or "Unexpected error: ..."
ReturnedTexts == {"successfully", "Error: ", "Unexpected error: "}

\* C17: every invocation, for any tool name (an unknown one included) and any
\* failure of resolution, of the backend or of building the request, ends by
\* returning a list of text results: no error leaves call_tool, and an invocation
\* that has not returned yet is waiting for a backend call it can resume from.
C17_EveryInvocationReturnsText ==
    \A i \in Inv :
        /\ inv[i].pc # "escaped"
        /\ inv[i].pc \in {"idle", "done"} \cup Awaiting
        /\ inv[i].pc = "done" => inv[i].result.text \in ReturnedTexts
        /\ inv[i].pc \in Awaiting => ENABLED Resume(i)

\* an unknown tool name ended in the text of an unexpected error
C17_Witness ==
    /\ inv[1].pc = "done"
    /\ inv[1].name = "noSuchTool"
    /\ inv[1].result.error = "UnknownTool"
    /\ inv[1].result.text = "Unexpected error: "

\* a missing required argument ended in a returned text
C17_WitnessMissingArgument ==
    /\ inv[1].pc = "done"
    /\ inv[1].name = "createTask"
    /\ inv[1].calls # <<>>
    /\ inv[1].result.error = "MissingArgument"
    /\ inv[1].result.text = "Unexpected error: "

\* a failing backend call ended in a returned text
C17_WitnessBackendFailure ==
    /\ inv[1].pc = "done"
    /\ inv[1].name = "updateTask"
    /\ inv[1].result.error = "Transport"
    /\ inv[1].result.text = "Error: "
    /\ writes = <<>>

-----------------------------------------------------------------------------
(* SpecTags: the backend returns every tag list of up to MaxTags elements  *)
(* that mixes strings, pairs and other shapes; getUserStory and updateTask *)
(* read the entity, whose tags pass through normalize_tags.                *)

\* what the first element of a nested tag may be
TagHeads == {TagStr(<<"a">>), TagNone, TagInt(4), TagList(<<TagStr(<<"a">>), TagNone>>)}

\* the elements of a tag list on the wire
TagElements ==
    {TagStr(<<"a">>), TagStr(<<>>), TagInt(4), TagNone, TagList(<<>>)}
    \cup {TagList(<<h>>) : h \in TagHeads}
    \cup {TagList(<<h, TagNone>>) : h \in TagHeads}
    \cup {TagList(<<TagStr(<<"a">>), TagStr(<<"b">>), TagStr(<<"c">>)>>)}

WireTags == {NoneTags} \cup UNION {[1..n -> TagElements] : n \in 0..MaxTags}

InitTags ==
    /\ \E wire \in WireTags :
          /\ stories = [InitStories EXCEPT ![1].data = WithKey(@, "tags", wire)]
          /\ tasks = [InitTasks EXCEPT ![1].data = WithKey(@, "tags", wire)]
    /\ us_statuses = InitUsStatuses
    /\ task_statuses = InitTaskStatuses
    /\ memberships = InitMemberships
    /\ inv = [i \in Inv |-> IdleInv]
    /\ writes = <<>>

BeginTagsGetUserStory ==
    Begin(1, "getUserStory", [userStoryIdentifier |-> <<"1", "0">>])

BeginTagsUpdateTask ==
    Begin(1, "updateTask",
          [taskId |-> <<"7", "0">>, projectIdentifier |-> <<"1">>, subject |-> <<"s">>])

NextTags ==
    \/ BeginTagsGetUserStory
    \/ BeginTagsUpdateTask
    \/ ResolveProject(1)
    \/ GetUserStory(1)
    \/ GetTask(1)
    \/ Patch(1)

SpecTags == InitTags /\ [][NextTags]_vars

\* the tags of the entity that slot i read, as the backend holds them
WireOf(i) ==
    LET entities == IF inv[i].name = "getUserStory" THEN stories ELSE tasks
    IN  entities[IndexOfId(entities, inv[i].current.id)].data["tags"]

\* slot i has read an entity, so that its tags went through normalize_tags
TagsRead(i) == inv[i].current.id # 0 /\ "tags" \in DOMAIN inv[i].current.data

\* C19: tag normalization is idempotent: normalize_tags applied to its own output
\* returns the same list, for any input list mixing strings, pairs and other shapes.
C19_NormalizeIdempotent ==
    \A i \in Inv :
        TagsRead(i)
        => /\ inv[i].current.data["tags"] = normalize_tags(WireOf(i))
           /\ normalize_tags(inv[i].current.data["tags"]) = inv[i].current.data["tags"]

\* a task was read whose tags on the wire were a pair whose first element is
\* itself a list, followed by a number
C19_Witness ==
    /\ inv[1].name = "updateTask"
    /\ TagsRead(1)
    /\ WireOf(1) = <<TagList(<<TagList(<<TagStr(<<"a">>), TagNone>>), TagNone>>), TagInt(4)>>
    /\ inv[1].current.data["tags"]
          = <<TagStr(<<"[", "'", "a", "'", ",", " ", "N", "o", "n", "e", "]">>)>>

\* what an element contributes by the rule of C20
ClaimedTag(tag) ==
    IF tag.shape = "list" /\ Len(tag.items) = 2 THEN <<TagStr(py_str(tag.items[1]))>>
    ELSE IF tag.shape = "str" THEN <<tag>>
    ELSE <<>>

RECURSIVE ClaimedTags(_)
ClaimedTags(v) ==
    IF v = NoneTags \/ Len(v) = 0 THEN <<>>
    ELSE ClaimedTag(v[1]) \o ClaimedTags(Tail(v))

\* C20: normalize_tags maps each element in order: a two-element sequence gives
\* the string conversion of its first element, a string gives itself, every other
\* shape (numbers, sequences of any other length) gives nothing; order and
\* duplicates are kept; an absent or empty input gives the empty list.
C20_NormalizeElementwise ==
    \A i \in Inv :
        TagsRead(i) => inv[i].current.data["tags"] = ClaimedTags(WireOf(i))

\* every nested element of the list is empty or a pair
OnlyPairs(v) ==
    v = NoneTags \/ \A k \in 1..Len(v) : v[k].shape = "list" => Len(v[k].items) \in {0, 2}

\* C20 on the lists whose nested elements are pairs, where the code follows the rule
C20_NormalizePairsAndStrings ==
    \A i \in Inv :
        (TagsRead(i) /\ OnlyPairs(WireOf(i)))
        => inv[i].current.data["tags"] = ClaimedTags(WireOf(i))

\* a story was read whose tags on the wire were the same string twice: both are kept
C20_PairsWitness ==
    /\ inv[1].name = "getUserStory"
    /\ TagsRead(1)
    /\ WireOf(1) = <<TagStr(<<"a">>), TagStr(<<"a">>)>>
    /\ inv[1].current.data["tags"] = WireOf(1)

-----------------------------------------------------------------------------
(* SpecRawTags: as SpecTags, and the backend may also put a value that is  *)
(* no list in the tags field: a number or a string.                        *)

NonListTags == {RawInt(0), RawInt(5), RawStr(<<>>), RawStr(<<"a", "b">>)}

InitRawTags ==
    /\ \E wire \in WireTags \cup NonListTags :
          /\ stories = [InitStories EXCEPT ![1].data = WithKey(@, "tags", wire)]
          /\ tasks = [InitTasks EXCEPT ![1].data = WithKey(@, "tags", wire)]
    /\ us_statuses = InitUsStatuses
    /\ task_statuses = InitTaskStatuses
    /\ memberships = InitMemberships
    /\ inv = [i \in Inv |-> IdleInv]
    /\ writes = <<>>

SpecRawTags == InitRawTags /\ [][NextTags]_vars

\* slot i has fetched the entity whose tags the backend holds
EntityFetched(i) ==
    \E k \in 1..Len(inv[i].calls) : inv[i].calls[k].op \in {"get_user_story", "get_task"}

\* the raw tags value of the entity that slot i asks for
RawOf(i) ==
    IF inv[i].name = "getUserStory" THEN stories[1].data["tags"] ELSE tasks[1].data["tags"]

\* every element of the list is a str
ListOfStrings(v) == \A k \in 1..Len(v) : v[k].shape = "str"

\* C21: normalize_tags never fails: for every raw value the backend may put in
\* the tags field (absent, empty, a list of any element shapes, or a value that
\* is no list) it returns a list of strings and raises no error.
C21_NormalizeNeverFails ==
    \A i \in Inv :
        EntityFetched(i)
        => /\ inv[i].result.error # "NotIterable"
           /\ TagsRead(i)
           /\ ListOfStrings(inv[i].current.data["tags"])

\* C21 on None, lists and strings, which the code can test for emptiness and iterate
C21_NormalizeIterableNeverFails ==
    \A i \in Inv :
        (EntityFetched(i) /\ ~IsRaw(RawOf(i), "raw_int"))
        => /\ inv[i].result.error # "NotIterable"
           /\ TagsRead(i)
           /\ ListOfStrings(inv[i].current.data["tags"])

\* the string "ab" in the tags field was read as the tags "a" and "b"
C21_IterableWitness ==
    /\ inv[1].name = "getUserStory"
    /\ EntityFetched(1)
    /\ stories[1].data["tags"] = RawStr(<<"a", "b">>)
    /\ inv[1].current.data["tags"] = <<TagStr(<<"a">>), TagStr(<<"b">>)>>

-----------------------------------------------------------------------------
(* The task identifier of updateTask (SpecUpdate).                         *)

\* the calls of slot i whose op is one of ops, in order
CallsOf(i, ops) == SelectSeq(inv[i].calls, LAMBDA c : c.op \in ops)

\* the backend calls that fetch a task or a list of entities
TaskFetches == {"get_task", "get_task_by_ref", "list_tasks", "list_user_stories"}

\* C22: updateTask resolves its task identifier by the same branching as user
\* stories: an identifier that starts with '#' by exactly one by-ref query scoped
\* to the resolved project, with no list fetched or scanned; any other identifier
\* is parsed as an integer and fetched by id; in both branches the fetched task
\* supplies the id and the version of the PATCH.
C22_TaskIdentifierBranching ==
    \A i \in Inv :
        (inv[i].name = "updateTask" /\ CallsOf(i, TaskFetches) # <<>>)
        => LET task_identifier == inv[i].arguments["taskId"]
               fetches == CallsOf(i, TaskFetches)
           IN  /\ Len(fetches) = 1
               /\ IF Head(task_identifier) = "#"
                  THEN /\ fetches[1].op = "get_task_by_ref"
                       /\ fetches[1].id = int_value(Tail(task_identifier))
                       /\ fetches[1].project = inv[i].project_id
                       /\ inv[i].current.id # 0
                             => /\ inv[i].current.ref = int_value(Tail(task_identifier))
                                /\ inv[i].current.project = inv[i].project_id
                  ELSE /\ fetches[1].op = "get_task"
                       /\ fetches[1].id = int_value(task_identifier)
                       /\ inv[i].current.id \in {0, int_value(task_identifier)}
               /\ \A k \in 1..Len(writes) :
                     writes[k].inv = i
                     => /\ writes[k].method = "PATCH"
                        /\ writes[k].kind = "task"
                        /\ writes[k].id = inv[i].current.id
                        /\ writes[k].payload["version"] = inv[i].current.version

\* "#1" in project "d1" fetched task 71 of project 7 by ref, though task 70 of
\* project 1 has the same ref, and the PATCH went to task 71 at the version read
C22_Witness ==
    /\ inv[1].name = "updateTask"
    /\ inv[1].arguments["taskId"] = <<"#", "1">>
    /\ inv[1].arguments["projectIdentifier"] = <<"d", "1">>
    /\ inv[1].current.id = 71
    /\ \E k \in 1..Len(writes) :
          /\ writes[k].id = 71
          /\ writes[k].accepted
          /\ writes[k].payload["version"] = inv[1].current.version

\* the task 70 was fetched by its id and the PATCH went to it
C22_WitnessById ==
    /\ inv[1].name = "updateTask"
    /\ inv[1].arguments["taskId"] = <<"7", "0">>
    /\ CallsOf(1, TaskFetches) = <<Call("get_task", 70, 0, <<>>)>>
    /\ \E k \in 1..Len(writes) : writes[k].id = 70 /\ writes[k].accepted

-----------------------------------------------------------------------------
(* The place of the write among the backend calls of an invocation.        *)

\* the backend calls that send a POST or a PATCH
WriteOps == {"update_user_story", "update_task", "create_user_story", "create_task"}

\* the positions of the write calls among the backend calls of slot i
WriteCalls(i) == {j \in 1..Len(inv[i].calls) : inv[i].calls[j].op \in WriteOps}

\* C23: each tool invocation sends at most one write request (POST or PATCH), and
\* that write is its last backend call: every read used for resolution (project,
\* entity, status list, member list) comes before it, and a failed write is never
\* followed by a second write of the same invocation.
C23_OneWriteAndItIsLast ==
    \A i \in Inv :
        /\ Cardinality(WriteCalls(i)) <= 1
        /\ Cardinality({k \in 1..Len(writes) : writes[k].inv = i}) <= 1
        /\ \A j \in WriteCalls(i) : j = Len(inv[i].calls) /\ inv[i].pc = "done"
        /\ \A k \in 1..Len(writes) :
              writes[k].inv = i
              => /\ WriteCalls(i) = {writes[k].calls + 1}
                 /\ ~writes[k].accepted => inv[i].result.error = "Conflict"

\* an update read the project, the task by ref and nothing else, its PATCH was
\* refused because another invocation had written the task first, and it sent
\* nothing after that
C23_Witness ==
    \E i \in Inv, k \in 1..Len(writes) :
        /\ writes[k].inv = i
        /\ ~writes[k].accepted
        /\ inv[i].pc = "done"
        /\ Len(inv[i].calls) = 3
        /\ inv[i].calls[1].op = "get_project"
        /\ inv[i].calls[2].op = "get_task_by_ref"
        /\ inv[i].calls[3].op = "update_task"
        /\ \A j \in 1..Len(writes) : writes[j].inv = i => j = k

\* a create tool read the project, the story list and the statuses before its POST
C23_WitnessPost ==
    /\ inv[1].pc = "done"
    /\ inv[1].name = "createTask"
    /\ Len(inv[1].calls) = 5
    /\ inv[1].calls[5].op = "create_task"
    /\ Len(writes) = 1
    /\ writes[1].method = "POST"

-----------------------------------------------------------------------------
(* The kind of the statuses a tool resolves in (Spec).                     *)

\* the ids of a status list
StatusIds(statuses) == {statuses[k].id : k \in 1..Len(statuses)}

\* the status id that slot i has resolved, 0 when it has none
ResolvedStatus(i) ==
    IF IsCreateTool(inv[i].name) THEN inv[i].status_id
    ELSE IF "status" \in DOMAIN inv[i].update_data THEN inv[i].update_data["status"]
    ELSE 0

\* C24: status resolution never crosses entity kinds: createUserStory and
\* updateUserStory only ever use a status id of the project's user-story status
\* list, createTask and updateTask only one of the project's task status list.
C24_StatusOfOwnKind ==
    /\ \A i \in Inv :
          /\ ResolvedStatus(i) # 0
                => IF inv[i].name \in {"createUserStory", "updateUserStory"}
                   THEN ResolvedStatus(i) \in StatusIds(us_statuses[inv[i].project_id])
                   ELSE ResolvedStatus(i) \in StatusIds(task_statuses[inv[i].project_id])
          /\ \A k \in 1..Len(inv[i].calls) :
                /\ inv[i].calls[k].op = "get_user_story_statuses"
                      => inv[i].name \in {"createUserStory", "updateUserStory"}
                /\ inv[i].calls[k].op = "get_task_statuses"
                      => inv[i].name \in {"createTask", "updateTask"}
    /\ \A k \in 1..Len(writes) :
          "status" \in DOMAIN writes[k].payload
          => IF writes[k].kind = "userstory"
             THEN writes[k].payload["status"]
                     \in StatusIds(us_statuses[inv[writes[k].inv].project_id])
             ELSE writes[k].payload["status"]
                     \in StatusIds(task_statuses[inv[writes[k].inv].project_id])

\* createTask with the status "a" in project 1, where the user-story status "A"
\* has id 1 and the task status "A" has id 11: the POST carries 11
C24_Witness ==
    /\ inv[1].name = "createTask"
    /\ inv[1].project_id = 1
    /\ "status" \in DOMAIN inv[1].arguments
    /\ inv[1].arguments["status"] = <<"a">>
    /\ us_statuses[1][1] = [id |-> 1, name |-> <<"A">>]
    /\ task_statuses[1][1] = [id |-> 11, name |-> <<"A">>]
    /\ Len(writes) = 1
    /\ writes[1].method = "POST"
    /\ writes[1].kind = "task"
    /\ "status" \in DOMAIN writes[1].payload
    /\ writes[1].payload["status"] = 11

\* updateUserStory with the status "a" on a story of project 1: the PATCH carries 1
C24_WitnessStory ==
    \E k \in 1..Len(writes) :
        /\ writes[k].kind = "userstory"
        /\ writes[k].method = "PATCH"
        /\ "status" \in DOMAIN writes[k].payload
        /\ writes[k].payload["status"] = 1
        /\ inv[writes[k].inv].arguments["status"] = <<"a">>

====
